---- MODULE Spec2Model ----
(***************************************************************************)
(* Renko brick engine (RenkoChart), pattern detector (PatternDetector) and *)
(* risk governor (RiskManager) of the MasterMind trading core.             *)
(*                                                                         *)
(* Prices are integers counted in ticks of 0.0001 (RenkoChart::tickValue_  *)
(* is 0.0001, so one tick is 1 here and the 0.0010 brick of the tests is   *)
(* 10).  Ratios (completionPercent, thresholds, confidences, percentages,  *)
(* drawdown) are exact fractions [num, den] with den > 0.                  *)
(* highestPrice_/lowestPrice_ and the bricks' timestamps are written but   *)
(* never read by any method and are left out.                              *)
(***************************************************************************)
EXTENDS Integers, Sequences, FiniteSets, TLC

VARIABLES
    \* ---- RenkoChart ----
    brickSize_, maxBricks_, bricks_, currentBrick_, currentBrickInitialized_,
    lastPrice_, lastUpdate_, chartHung,
    \* ---- PatternDetector ----
    partialBrickThreshold_, tickBuffer_, setup1Enabled_, setup2Enabled_,
    \* ---- RiskManager ----
    params_, currentStatus_, paperMode_, emergencyStop_,
    equityHighWaterMark_, currentDrawdown_, maxDrawdown_,
    dailyPnL_, dailyRiskUsed_,
    consecutiveLosses_, consecutiveWins_, maxConsecutiveLosses_,
    totalTrades_, profitableTrades_,
    currentCounter_, completedCounters_, counterHung,
    \* ---- PatternDetector::minConfidence_ ----
    minConfidence_,
    \* ---- OrderManager ----
    activeOrders_, orderQueue_, orderIdCounter, ordersHung,
    \* ---- calls in progress on other threads ----
    addPricePc, paramsPc, paramsPending,
    recordTradePc, recordTradeReg, recordTradeStart,
    \* ---- the last call made and what it returned ----
    lastCall

chartVars == <<brickSize_, maxBricks_, bricks_, currentBrick_,
               currentBrickInitialized_, lastPrice_, lastUpdate_, chartHung>>
detectorVars == <<partialBrickThreshold_, tickBuffer_, setup1Enabled_, setup2Enabled_>>
flagVars == <<currentStatus_, paperMode_, emergencyStop_>>
drawdownVars == <<equityHighWaterMark_, currentDrawdown_, maxDrawdown_>>
dailyVars == <<dailyPnL_, dailyRiskUsed_>>
tradeVars == <<consecutiveLosses_, consecutiveWins_, maxConsecutiveLosses_,
               totalTrades_, profitableTrades_>>
counterVars == <<currentCounter_, completedCounters_, counterHung>>
riskVars == <<params_, flagVars, drawdownVars, dailyVars, tradeVars, counterVars>>
orderVars == <<activeOrders_, orderQueue_, orderIdCounter, ordersHung>>
\* What the operations of RenkoChart, RiskManager and the detectors leave alone
threadVars == <<addPricePc, paramsPc, paramsPending,
                recordTradePc, recordTradeReg, recordTradeStart>>
restVars == <<minConfidence_, orderVars, threadVars>>
vars == <<chartVars, detectorVars, riskVars, restVars, lastCall>>

\* ------------------------------------------------------------------------
\* Exact fractions
\* ------------------------------------------------------------------------
Frac(n, d) == [num |-> n, den |-> d]
FracZero == Frac(0, 1)
FracOne == Frac(1, 1)
FracLT(a, b) == a.num * b.den < b.num * a.den
FracGE(a, b) == ~FracLT(a, b)
FracGT(a, b) == FracLT(b, a)
FracEQ(a, b) == a.num * b.den = b.num * a.den
FracMax(a, b) == IF FracLT(a, b) THEN b ELSE a
FracMin(a, b) == IF FracLT(b, a) THEN b ELSE a
Abs(x) == IF x < 0 THEN -x ELSE x
Max(a, b) == IF a < b THEN b ELSE a
Min(a, b) == IF b < a THEN b ELSE a
Last(s) == s[Len(s)]

\* ------------------------------------------------------------------------
\* Bounds and input sets
\* ------------------------------------------------------------------------
MaxBricksInit == 4
BasePrice == 11000
PriceOffsets == {-20, -13, -12, -10, -2, 0, 8, 10, 18, 25}
PriceSet == {0, -1} \cup {BasePrice + d : d \in PriceOffsets}
TimeSet == {1, 2}
BrickSizeInit == 10
TickValue == 1

\* ------------------------------------------------------------------------
\* RenkoChart
\* ------------------------------------------------------------------------
\* RenkoBrick(): the default-constructed brick
DefaultBrick ==
    [open |-> 0, close |-> 0, high |-> 0, low |-> 0, isUp |-> TRUE,
     completionPercent |-> FracZero]

\* MakeBrick with the constructor's open and close initialisers swapped
MakeBrick_Swapped(o, c, up) ==
    [open |-> c, close |-> o, high |-> Max(o, c), low |-> Min(o, c),
     isUp |-> up, completionPercent |-> FracOne]

\* RenkoBrick(o, c, ts, up): a finalized brick
MakeBrick(o, c, up) ==
    [open |-> o, close |-> c, high |-> Max(o, c), low |-> Min(o, c),
     isUp |-> up, completionPercent |-> FracOne]

RECURSIVE maintainMaxBricks(_, _)
maintainMaxBricks(bricks, maxBricks) ==
    IF Len(bricks) > maxBricks
    THEN maintainMaxBricks(Tail(bricks), maxBricks)
    ELSE bricks

\* finalizeBrick: the series and the fresh partial brick after `brick`
finalizeBrick(bricks, brick, maxBricks) ==
    [bricks |-> maintainMaxBricks(Append(bricks, brick), maxBricks),
     cur |-> [DefaultBrick EXCEPT !.open = brick.close, !.close = brick.close],
     formed |-> 1]

\* initializeCurrentBrick leaving the open where it was
initializeCurrentBrick_NoOpen(cur, price) ==
    [cur EXCEPT !.close = price, !.high = price, !.low = price,
                !.isUp = TRUE, !.completionPercent = FracZero]

\* initializeCurrentBrick: seeding by the first accepted price
initializeCurrentBrick(cur, price) ==
    [cur EXCEPT !.open = price, !.close = price, !.high = price, !.low = price,
                !.isUp = TRUE, !.completionPercent = FracZero]

\* updateCurrentBrick whose subsequent-brick partial takes the signed
\* downDistance and is not clamped
updateCurrentBrick_SignedUnclamped(bricks, cur, price, size, maxBricks) ==
    IF bricks = <<>>
    THEN IF price >= cur.open + size
         THEN finalizeBrick(bricks, MakeBrick(cur.open, cur.open + size, TRUE), maxBricks)
         ELSE IF price <= cur.open - size
         THEN finalizeBrick(bricks, MakeBrick(cur.open, cur.open - size, FALSE), maxBricks)
         ELSE LET upDistance == price - cur.open
                  downDistance == cur.open - price
              IN [bricks |-> bricks,
                  cur |-> IF upDistance > downDistance
                          THEN [cur EXCEPT !.isUp = TRUE,
                                           !.completionPercent = Frac(upDistance, size)]
                          ELSE [cur EXCEPT !.isUp = FALSE,
                                           !.completionPercent = Frac(downDistance, size)],
                  formed |-> 0]
    ELSE LET lastClose == Last(bricks).close IN
         IF price >= lastClose + size
         THEN finalizeBrick(bricks, MakeBrick(lastClose, lastClose + size, TRUE), maxBricks)
         ELSE IF price <= lastClose - size
         THEN finalizeBrick(bricks, MakeBrick(lastClose, lastClose - size, FALSE), maxBricks)
         ELSE LET upDistance == price - lastClose
                  downDistance == lastClose - price
                  raw == IF Abs(upDistance) > Abs(downDistance)
                         THEN [isUp |-> TRUE, c |-> Frac(upDistance, size)]
                         ELSE [isUp |-> FALSE, c |-> Frac(downDistance, size)]
              IN [bricks |-> bricks,
                  cur |-> [cur EXCEPT !.isUp = raw.isUp, !.completionPercent = raw.c],
                  formed |-> 0]

\* updateCurrentBrick: one call forms at most one brick
updateCurrentBrick(bricks, cur, price, size, maxBricks) ==
    IF bricks = <<>>
    THEN IF price >= cur.open + size
         THEN finalizeBrick(bricks, MakeBrick(cur.open, cur.open + size, TRUE), maxBricks)
         ELSE IF price <= cur.open - size
         THEN finalizeBrick(bricks, MakeBrick(cur.open, cur.open - size, FALSE), maxBricks)
         ELSE LET upDistance == price - cur.open
                  downDistance == cur.open - price
              IN [bricks |-> bricks,
                  cur |-> IF upDistance > downDistance
                          THEN [cur EXCEPT !.isUp = TRUE,
                                           !.completionPercent = Frac(upDistance, size)]
                          ELSE [cur EXCEPT !.isUp = FALSE,
                                           !.completionPercent = Frac(downDistance, size)],
                  formed |-> 0]
    ELSE LET lastClose == Last(bricks).close IN
         IF price >= lastClose + size
         THEN finalizeBrick(bricks, MakeBrick(lastClose, lastClose + size, TRUE), maxBricks)
         ELSE IF price <= lastClose - size
         THEN finalizeBrick(bricks, MakeBrick(lastClose, lastClose - size, FALSE), maxBricks)
         ELSE LET upDistance == price - lastClose
                  downDistance == lastClose - price
                  raw == IF Abs(upDistance) > Abs(downDistance)
                         THEN [isUp |-> TRUE, c |-> Frac(upDistance, size)]
                         ELSE [isUp |-> FALSE, c |-> Frac(Abs(downDistance), size)]
              IN [bricks |-> bricks,
                  cur |-> [cur EXCEPT !.isUp = raw.isUp,
                                      !.completionPercent =
                                          FracMax(FracZero, FracMin(FracOne, raw.c))],
                  formed |-> 0]

\* The level bricks are measured from: the last finalized close, or the seed
Reference == IF bricks_ = <<>> THEN currentBrick_.open ELSE Last(bricks_).close

\* addPrice rejecting only negative prices
AddPrice_ZeroAccepted(price, ts) ==
    /\ ~chartHung
    /\ addPricePc = "idle"
    /\ IF price < 0
       THEN /\ UNCHANGED chartVars
            /\ lastCall' = [name |-> "addPrice", price |-> price, accepted |-> FALSE,
                            seeded |-> currentBrickInitialized_, formed |-> 0,
                            evicted |-> 0]
       ELSE /\ lastPrice_' = price
            /\ lastUpdate_' = ts
            /\ IF ~currentBrickInitialized_
               THEN /\ currentBrick_' = initializeCurrentBrick(currentBrick_, price)
                    /\ currentBrickInitialized_' = TRUE
                    /\ UNCHANGED bricks_
                    /\ lastCall' = [name |-> "addPrice", price |-> price,
                                    accepted |-> TRUE, seeded |-> FALSE, formed |-> 0,
                                    evicted |-> 0]
               ELSE LET r == updateCurrentBrick(bricks_, currentBrick_, price,
                                                brickSize_, maxBricks_)
                    IN /\ bricks_' = r.bricks
                       /\ currentBrick_' = r.cur
                       /\ UNCHANGED currentBrickInitialized_
                       /\ lastCall' = [name |-> "addPrice", price |-> price,
                                       accepted |-> TRUE, seeded |-> TRUE,
                                       formed |-> r.formed,
                                       evicted |-> Len(bricks_) + r.formed - Len(r.bricks)]
            /\ UNCHANGED <<brickSize_, maxBricks_, chartHung>>
    /\ UNCHANGED <<detectorVars, riskVars>>
    /\ UNCHANGED restVars

\* addPrice(price, timestamp)
AddPrice(price, ts) ==
    /\ ~chartHung
    /\ addPricePc = "idle"
    /\ IF price <= 0
       THEN /\ UNCHANGED chartVars
            /\ lastCall' = [name |-> "addPrice", price |-> price, accepted |-> FALSE,
                            seeded |-> currentBrickInitialized_, formed |-> 0,
                            evicted |-> 0]
       ELSE /\ lastPrice_' = price
            /\ lastUpdate_' = ts
            /\ IF ~currentBrickInitialized_
               THEN /\ currentBrick_' = initializeCurrentBrick(currentBrick_, price)
                    /\ currentBrickInitialized_' = TRUE
                    /\ UNCHANGED bricks_
                    /\ lastCall' = [name |-> "addPrice", price |-> price,
                                    accepted |-> TRUE, seeded |-> FALSE, formed |-> 0,
                                    evicted |-> 0]
               ELSE LET r == updateCurrentBrick(bricks_, currentBrick_, price,
                                                brickSize_, maxBricks_)
                    IN /\ bricks_' = r.bricks
                       /\ currentBrick_' = r.cur
                       /\ UNCHANGED currentBrickInitialized_
                       /\ lastCall' = [name |-> "addPrice", price |-> price,
                                       accepted |-> TRUE, seeded |-> TRUE,
                                       formed |-> r.formed,
                                       evicted |-> Len(bricks_) + r.formed - Len(r.bricks)]
            /\ UNCHANGED <<brickSize_, maxBricks_, chartHung>>
    /\ UNCHANGED <<detectorVars, riskVars>>
    /\ UNCHANGED restVars

\* setBrickSize taking a zero size as well
SetBrickSize_ZeroAccepted(brickSize) ==
    /\ ~chartHung
    /\ addPricePc = "idle"
    /\ brickSize_' = IF brickSize >= 0 THEN brickSize ELSE brickSize_
    /\ lastCall' = [name |-> "setBrickSize", brickSize |-> brickSize]
    /\ UNCHANGED <<maxBricks_, bricks_, currentBrick_, currentBrickInitialized_,
                   lastPrice_, lastUpdate_, chartHung, detectorVars, riskVars>>
    /\ UNCHANGED restVars

\* setBrickSize(brickSize): ignored unless positive
BrickSizeSet == {-5, 0, 10, 20}
SetBrickSize(brickSize) ==
    /\ ~chartHung
    /\ addPricePc = "idle"
    /\ brickSize_' = IF brickSize > 0 THEN brickSize ELSE brickSize_
    /\ lastCall' = [name |-> "setBrickSize", brickSize |-> brickSize]
    /\ UNCHANGED <<maxBricks_, bricks_, currentBrick_, currentBrickInitialized_,
                   lastPrice_, lastUpdate_, chartHung, detectorVars, riskVars>>
    /\ UNCHANGED restVars

\* reset(): the bricks and the partial brick are dropped, lastPrice_ is kept
Reset ==
    /\ ~chartHung
    /\ addPricePc = "idle"
    /\ bricks_' = <<>>
    /\ currentBrick_' = DefaultBrick
    /\ currentBrickInitialized_' = FALSE
    /\ lastCall' = [name |-> "reset"]
    /\ UNCHANGED <<brickSize_, maxBricks_, lastPrice_, lastUpdate_, chartHung,
                   detectorVars, riskVars>>
    /\ UNCHANGED restVars

\* clearOldBricks(keepCount): pops the oldest bricks down to keepCount
KeepCountSet == {0, 1, 3}
ClearOldBricks(keepCount) ==
    /\ ~chartHung
    /\ addPricePc = "idle"
    /\ bricks_' = maintainMaxBricks(bricks_, keepCount)
    /\ lastCall' = [name |-> "clearOldBricks", keepCount |-> keepCount]
    /\ UNCHANGED <<brickSize_, maxBricks_, currentBrick_, currentBrickInitialized_,
                   lastPrice_, lastUpdate_, chartHung, detectorVars, riskVars>>
    /\ UNCHANGED restVars

\* setMaxBricks(maxBricks): stores the limit, takes no lock, trims nothing
MaxBricksSet == {1, 2, MaxBricksInit}
SetMaxBricks(maxBricks) ==
    /\ maxBricks_' = maxBricks
    /\ lastCall' = [name |-> "setMaxBricks", maxBricks |-> maxBricks]
    /\ UNCHANGED <<brickSize_, bricks_, currentBrick_, currentBrickInitialized_,
                   lastPrice_, lastUpdate_, chartHung, detectorVars, riskVars>>
    /\ UNCHANGED restVars

\* addPrice(price, timestamp) on another thread, up to the call of
\* updateCurrentBrick: dataMutex_ is taken and the price stored
AddPriceLock(price, ts) ==
    /\ ~chartHung
    /\ addPricePc = "idle"
    /\ price > 0
    /\ currentBrickInitialized_
    /\ addPricePc' = "locked"
    /\ lastPrice_' = price
    /\ lastUpdate_' = ts
    /\ UNCHANGED <<brickSize_, maxBricks_, bricks_, currentBrick_,
                   currentBrickInitialized_, chartHung, lastCall>>
    /\ UNCHANGED <<detectorVars, riskVars, minConfidence_, orderVars, paramsPc,
                   paramsPending, recordTradePc, recordTradeReg, recordTradeStart>>

\* ... updateCurrentBrick up to and including finalizeBrick's push_back; with
\* no brick to form the partial is updated and the call returns
AddPriceUpdate ==
    /\ addPricePc = "locked"
    /\ LET r == updateCurrentBrick(bricks_, currentBrick_, lastPrice_, brickSize_,
                                   Len(bricks_) + 1)
       IN IF r.formed = 0
          THEN /\ currentBrick_' = r.cur
               /\ addPricePc' = "idle"
               /\ lastCall' = [name |-> "addPrice", price |-> lastPrice_,
                               accepted |-> TRUE, seeded |-> TRUE, formed |-> 0,
                               evicted |-> 0]
               /\ UNCHANGED bricks_
          ELSE /\ bricks_' = r.bricks
               /\ addPricePc' = "pushed"
               /\ UNCHANGED <<currentBrick_, lastCall>>
    /\ UNCHANGED <<brickSize_, maxBricks_, currentBrickInitialized_, lastPrice_,
                   lastUpdate_, chartHung>>
    /\ UNCHANGED <<detectorVars, riskVars, minConfidence_, orderVars, paramsPc,
                   paramsPending, recordTradePc, recordTradeReg, recordTradeStart>>

\* ... the rest of finalizeBrick: the fresh partial brick, maintainMaxBricks,
\* and the lock released on return
AddPriceFinish ==
    /\ addPricePc = "pushed"
    /\ LET f == finalizeBrick(SubSeq(bricks_, 1, Len(bricks_) - 1), Last(bricks_),
                              maxBricks_)
       IN /\ bricks_' = f.bricks
          /\ currentBrick_' = f.cur
          /\ lastCall' = [name |-> "addPrice", price |-> lastPrice_,
                          accepted |-> TRUE, seeded |-> TRUE, formed |-> 1,
                          evicted |-> Len(bricks_) - Len(f.bricks)]
    /\ addPricePc' = "idle"
    /\ UNCHANGED <<brickSize_, maxBricks_, currentBrickInitialized_, lastPrice_,
                   lastUpdate_, chartHung>>
    /\ UNCHANGED <<detectorVars, riskVars, minConfidence_, orderVars, paramsPc,
                   paramsPending, recordTradePc, recordTradeReg, recordTradeStart>>

\* The up bricks at the end of the series
RECURSIVE getConsecutiveUpCount(_)
getConsecutiveUpCount(bricks) ==
    IF bricks = <<>> \/ ~Last(bricks).isUp
    THEN 0
    ELSE 1 + getConsecutiveUpCount(SubSeq(bricks, 1, Len(bricks) - 1))

\* getConsecutiveUpCount(): no lock is taken; walking bricks_ while addPrice
\* is between its lock and its return is a data race, any count may come back
GetConsecutiveUpCount ==
    /\ \E ret \in (IF addPricePc = "idle"
                    THEN {getConsecutiveUpCount(bricks_)}
                    ELSE 0..Len(bricks_)) :
           lastCall' = [name |-> "getConsecutiveUpCount", ret |-> ret]
    /\ UNCHANGED <<chartVars, detectorVars, riskVars>>
    /\ UNCHANGED restVars

\* getBrickSize(): no lock is taken
GetBrickSize ==
    /\ lastCall' = [name |-> "getBrickSize", ret |-> brickSize_]
    /\ UNCHANGED <<chartVars, detectorVars, riskVars>>
    /\ UNCHANGED restVars

\* getLastUpdateTime(): no lock is taken
GetLastUpdateTime ==
    /\ lastCall' = [name |-> "getLastUpdateTime", ret |-> lastUpdate_]
    /\ UNCHANGED <<chartVars, detectorVars, riskVars>>
    /\ UNCHANGED restVars

\* getBricks(count) / getLastNBricks(n): the last `count` bricks, all if 0
getBricks(bricks, count) ==
    IF count = 0 \/ count >= Len(bricks)
    THEN bricks
    ELSE SubSeq(bricks, Len(bricks) - count + 1, Len(bricks))

\* getNextUpBrickLevel / getNextDownBrickLevel
getNextUpBrickLevel(bricks, lastPrice, size) ==
    IF bricks = <<>> THEN lastPrice + size ELSE Last(bricks).close + size
getNextDownBrickLevel(bricks, lastPrice, size) ==
    IF bricks = <<>> THEN lastPrice - size ELSE Last(bricks).close - size

\* calculateSetup1EntryPrice(side, tickBuffer): the value it computes when the
\* nested lock() of getNextUpBrickLevel lets it through
calculateSetup1EntryPrice(bricks, lastPrice, size, side, tickBuffer) ==
    LET basePrice == IF side = "BUY"
                     THEN getNextUpBrickLevel(bricks, lastPrice, size)
                     ELSE getNextDownBrickLevel(bricks, lastPrice, size)
        tickAdjustment == tickBuffer * TickValue
    IN IF side = "BUY" THEN basePrice + tickAdjustment ELSE basePrice - tickAdjustment

\* calculateSetup2EntryPrice delegates to calculateSetup1EntryPrice
calculateSetup2EntryPrice(bricks, lastPrice, size, side, tickBuffer) ==
    calculateSetup1EntryPrice(bricks, lastPrice, size, side, tickBuffer)

\* calculateStopLoss(side, tickBuffer)
calculateStopLoss(bricks, lastPrice, size, side, tickBuffer) ==
    IF bricks = <<>>
    THEN lastPrice
    ELSE LET stopLevel == IF side = "BUY" THEN Last(bricks).close - size
                                          ELSE Last(bricks).close + size
             tickAdjustment == tickBuffer * TickValue
         IN IF side = "BUY" THEN stopLevel - tickAdjustment ELSE stopLevel + tickAdjustment

\* ------------------------------------------------------------------------
\* PatternDetector
\* ------------------------------------------------------------------------
NoPattern ==
    [type |-> "NONE", confidence |-> FracZero, suggestedSide |-> "UNSET",
     suggestedEntry |-> 0, suggestedStop |-> 0, bricks |-> <<>>]

\* detectSetup1Pattern carrying the brick test of detectSetup2Pattern
Setup1Match_GreenRedGreen(bricks, cur, threshold) ==
    LET recentBricks == getBricks(bricks, 5)
        n == Len(recentBricks)
    IN /\ n >= 3
       /\ recentBricks[n - 2].isUp /\ ~recentBricks[n - 1].isUp /\ recentBricks[n].isUp
       /\ FracGE(cur.completionPercent, threshold)

\* detectSetup1Pattern: the match condition (recentBricks[size-3] and
\* recentBricks[size-2] down, partial brick up and past the threshold)
Setup1Match(bricks, cur, threshold) ==
    LET recentBricks == getBricks(bricks, 5)
        n == Len(recentBricks)
    IN /\ n >= 3
       /\ ~recentBricks[n - 2].isUp /\ ~recentBricks[n - 1].isUp
       /\ cur.isUp /\ FracGE(cur.completionPercent, threshold)

\* detectSetup1Pattern: the result, when its price queries return
detectSetup1Pattern(bricks, cur, lastPrice, size, threshold, tickBuffer) ==
    IF Setup1Match(bricks, cur, threshold)
    THEN [type |-> "SETUP_1_CONSECUTIVE", confidence |-> Frac(8, 10),
          suggestedSide |-> "BUY",
          suggestedEntry |-> calculateSetup1EntryPrice(bricks, lastPrice, size, "BUY", tickBuffer),
          suggestedStop |-> calculateStopLoss(bricks, lastPrice, size, "BUY", tickBuffer),
          bricks |-> getBricks(bricks, 5)]
    ELSE NoPattern

\* detectSetup2Pattern: the match condition (Up, Down, Up and a partial
\* brick past the threshold, whatever its direction)
Setup2Match(bricks, cur, threshold) ==
    LET recentBricks == getBricks(bricks, 5)
        n == Len(recentBricks)
    IN /\ n >= 3
       /\ recentBricks[n - 2].isUp /\ ~recentBricks[n - 1].isUp /\ recentBricks[n].isUp
       /\ FracGE(cur.completionPercent, threshold)

\* detectSetup2Pattern: the result, when its price queries return
detectSetup2Pattern(bricks, cur, lastPrice, size, threshold, tickBuffer) ==
    IF Setup2Match(bricks, cur, threshold)
    THEN [type |-> "SETUP_2_GREEN_RED_GREEN", confidence |-> Frac(75, 100),
          suggestedSide |-> "BUY",
          suggestedEntry |-> calculateSetup2EntryPrice(bricks, lastPrice, size, "BUY", tickBuffer),
          suggestedStop |-> calculateStopLoss(bricks, lastPrice, size, "BUY", tickBuffer),
          bricks |-> getBricks(bricks, 5)]
    ELSE NoPattern

\* The results of the detectors that are enabled (detectPatterns' vector)
PatternResults ==
    LET r1 == detectSetup1Pattern(bricks_, currentBrick_, lastPrice_, brickSize_,
                                  partialBrickThreshold_, tickBuffer_)
        r2 == detectSetup2Pattern(bricks_, currentBrick_, lastPrice_, brickSize_,
                                  partialBrickThreshold_, tickBuffer_)
    IN (IF setup1Enabled_ /\ r1.type # "NONE" THEN <<r1>> ELSE <<>>)
       \o (IF setup2Enabled_ /\ r2.type # "NONE" THEN <<r2>> ELSE <<>>)

\* A detector that matches calls calculateSetup1EntryPrice, which holds
\* dataMutex_ and calls getNextUpBrickLevel, which locks dataMutex_ again:
\* relocking a std::mutex the thread owns is undefined behaviour.
RelocksDataMutex ==
    \/ setup1Enabled_ /\ Setup1Match(bricks_, currentBrick_, partialBrickThreshold_)
    \/ setup2Enabled_ /\ Setup2Match(bricks_, currentBrick_, partialBrickThreshold_)

\* detectPatterns(chart), the call returns (always when no detector matches;
\* when one matches, only if the nested lock() lets the thread through)
DetectPatterns ==
    /\ ~chartHung
    /\ addPricePc = "idle"
    /\ lastCall' = [name |-> "detectPatterns", returned |-> TRUE,
                    results |-> PatternResults]
    /\ UNCHANGED <<chartVars, detectorVars, riskVars>>
    /\ UNCHANGED restVars

\* detectPatterns(chart), the nested lock() blocks: the thread waits for a
\* mutex it holds itself, the call never returns and dataMutex_ stays locked
DetectPatternsRelockHang ==
    /\ ~chartHung
    /\ addPricePc = "idle"
    /\ RelocksDataMutex
    /\ chartHung' = TRUE
    /\ lastCall' = [name |-> "detectPatterns", returned |-> FALSE, results |-> <<>>]
    /\ UNCHANGED <<brickSize_, maxBricks_, bricks_, currentBrick_,
                   currentBrickInitialized_, lastPrice_, lastUpdate_>>
    /\ UNCHANGED <<detectorVars, riskVars>>
    /\ UNCHANGED restVars

\* TradingSignal(): the default-constructed signal; its side has no
\* initialiser, so it holds whatever value `side` stands for
DefaultTradingSignal(side) ==
    [symbol |-> "", pattern |-> "NONE", side |-> side, entryPrice |-> 0,
     stopLoss |-> 0, takeProfit |-> 0, quantity |-> FracZero,
     confidence |-> FracZero]

\* generateSignalFromPattern with the take-profit on the wrong side
generateSignalFromPattern_SignSwapped(pattern, config, uninitSide) ==
    IF pattern.type = "NONE"
    THEN DefaultTradingSignal(uninitSide)
    ELSE LET riskDistance == Abs(pattern.suggestedEntry - pattern.suggestedStop)
         IN [symbol |-> pattern.symbol, pattern |-> pattern.type,
             side |-> pattern.suggestedSide,
             entryPrice |-> pattern.suggestedEntry,
             stopLoss |-> pattern.suggestedStop,
             takeProfit |-> IF pattern.suggestedSide = "BUY"
                            THEN pattern.suggestedEntry - riskDistance * 2
                            ELSE pattern.suggestedEntry + riskDistance * 2,
             quantity |-> config.minLotSize,
             confidence |-> pattern.confidence]

\* generateSignalFromPattern(pattern, chart, config): the signal returned
generateSignalFromPattern(pattern, config, uninitSide) ==
    IF pattern.type = "NONE"
    THEN DefaultTradingSignal(uninitSide)
    ELSE LET riskDistance == Abs(pattern.suggestedEntry - pattern.suggestedStop)
         IN [symbol |-> pattern.symbol, pattern |-> pattern.type,
             side |-> pattern.suggestedSide,
             entryPrice |-> pattern.suggestedEntry,
             stopLoss |-> pattern.suggestedStop,
             takeProfit |-> IF pattern.suggestedSide = "BUY"
                            THEN pattern.suggestedEntry + riskDistance * 2
                            ELSE pattern.suggestedEntry - riskDistance * 2,
             quantity |-> config.minLotSize,
             confidence |-> pattern.confidence]

\* The patterns and symbol configurations handed to generateSignalFromPattern
SideSet == {"BUY", "SELL"}
SignalPatternSet ==
    [type : {"NONE", "SETUP_1_CONSECUTIVE", "SETUP_2_GREEN_RED_GREEN"},
     symbol : {"EURUSD", "GBPUSD"},
     confidence : {Frac(8, 10), Frac(75, 100)},
     suggestedSide : SideSet,
     suggestedEntry : {BasePrice, BasePrice + 10},
     suggestedStop : {BasePrice - 10, BasePrice, BasePrice + 20}]
SymbolConfigSet ==
    {[minLotSize |-> Frac(1, 100)], [minLotSize |-> Frac(8, 1)]}

GenerateSignalFromPattern(pattern, config, uninitSide) ==
    /\ lastCall' = [name |-> "generateSignalFromPattern", pattern |-> pattern,
                    config |-> config,
                    signal |-> generateSignalFromPattern(pattern, config, uninitSide)]
    /\ UNCHANGED <<chartVars, detectorVars, riskVars>>
    /\ UNCHANGED restVars

\* setMinConfidence(confidence): clamped to [0.0, 1.0]; no method reads
\* minConfidence_
ConfidenceSet == {Frac(5, 10), Frac(9, 10), Frac(12, 10)}
SetMinConfidence(confidence) ==
    /\ minConfidence_' = FracMax(FracZero, FracMin(FracOne, confidence))
    /\ lastCall' = [name |-> "setMinConfidence", confidence |-> confidence]
    /\ UNCHANGED <<chartVars, detectorVars, riskVars, orderVars, threadVars>>

\* setPartialBrickThreshold(threshold): clamped to [0.5, 1.0]
ThresholdSet == {Frac(4, 10), Frac(75, 100), Frac(1, 1)}
SetPartialBrickThreshold(threshold) ==
    /\ partialBrickThreshold_' = FracMax(Frac(1, 2), FracMin(FracOne, threshold))
    /\ lastCall' = [name |-> "setPartialBrickThreshold"]
    /\ UNCHANGED <<chartVars, tickBuffer_, setup1Enabled_, setup2Enabled_, riskVars>>
    /\ UNCHANGED restVars

\* ------------------------------------------------------------------------
\* OrderManager (start() is not called: no worker thread takes orders off
\* the queue; order ids are the values of generateOrderId's static counter,
\* 0 standing for the empty id)
\* ------------------------------------------------------------------------
MaxOrders == 3
OrderRequestSet ==
    [symbol : {"EURUSD", "GBPUSD", ""}, quantity : {FracZero, Frac(1, 100)},
     price : {0, BasePrice}]
OrderIdSet == 1..(MaxOrders + 1)

\* OrderManager::validateOrder(order), no risk validation callback set
OrderManager_validateOrder(order) ==
    ~(order.symbol = "" \/ ~FracGT(order.quantity, FracZero) \/ order.price <= 0)

\* submitOrder(order)
SubmitOrder(order) ==
    /\ IF ~OrderManager_validateOrder(order)
       THEN /\ lastCall' = [name |-> "submitOrder", ret |-> 0]
            /\ UNCHANGED orderVars
       ELSE /\ ~ordersHung
            /\ orderIdCounter < MaxOrders
            /\ LET orderId == orderIdCounter + 1
                   newOrder == [orderId |-> orderId, symbol |-> order.symbol,
                                quantity |-> order.quantity, price |-> order.price,
                                status |-> "PENDING"]
               IN /\ orderIdCounter' = orderId
                  /\ activeOrders_' = activeOrders_ @@ (orderId :> newOrder)
                  /\ orderQueue_' = Append(orderQueue_, newOrder)
                  /\ lastCall' = [name |-> "submitOrder", ret |-> orderId]
            /\ UNCHANGED ordersHung
    /\ UNCHANGED <<chartVars, detectorVars, riskVars, minConfidence_, threadVars>>

\* getActiveOrders()
GetActiveOrders ==
    /\ ~ordersHung
    /\ lastCall' = [name |-> "getActiveOrders",
                    ret |-> {activeOrders_[id] : id \in DOMAIN activeOrders_}]
    /\ UNCHANGED <<chartVars, detectorVars, riskVars, restVars>>

\* cancelOrder(orderId), the call returns.  For a known id it holds
\* ordersMutex_ and calls updateOrderStatus, which locks ordersMutex_ again:
\* undefined behaviour; this is the outcome in which the nested lock() lets
\* the thread through.
CancelOrder(orderId) ==
    /\ ~ordersHung
    /\ IF orderId \in DOMAIN activeOrders_
       THEN /\ activeOrders_' = [activeOrders_ EXCEPT ![orderId].status = "CANCELLED"]
            /\ lastCall' = [name |-> "cancelOrder", orderId |-> orderId,
                            returned |-> TRUE, ret |-> TRUE]
       ELSE /\ UNCHANGED activeOrders_
            /\ lastCall' = [name |-> "cancelOrder", orderId |-> orderId,
                            returned |-> TRUE, ret |-> FALSE]
    /\ UNCHANGED <<orderQueue_, orderIdCounter, ordersHung>>
    /\ UNCHANGED <<chartVars, detectorVars, riskVars, minConfidence_, threadVars>>

\* cancelOrder(orderId) of a known id, the nested lock() of updateOrderStatus
\* blocks: the status is written, the call never returns and ordersMutex_
\* stays locked
CancelOrderRelockHang(orderId) ==
    /\ ~ordersHung
    /\ orderId \in DOMAIN activeOrders_
    /\ activeOrders_' = [activeOrders_ EXCEPT ![orderId].status = "CANCELLED"]
    /\ ordersHung' = TRUE
    /\ lastCall' = [name |-> "cancelOrder", orderId |-> orderId,
                    returned |-> FALSE, ret |-> FALSE]
    /\ UNCHANGED <<orderQueue_, orderIdCounter>>
    /\ UNCHANGED <<chartVars, detectorVars, riskVars, minConfidence_, threadVars>>

\* ------------------------------------------------------------------------
\* RiskManager
\* ------------------------------------------------------------------------
\* RiskParameters(): the defaults
DefaultRiskParameters ==
    [dailyRiskPercent |-> Frac(1, 100), maxDrawdownPercent |-> Frac(5, 100),
     consecutiveLossLimit |-> 2, capitalUtilization |-> FracOne,
     ordersPerCounter |-> 10, minLotSize |-> Frac(1, 100),
     paperTradingMode |-> FALSE]

\* The parameter records handed to initialize / updateRiskParameters
ParamSet ==
    { [DefaultRiskParameters EXCEPT !.dailyRiskPercent = Frac(2, 100),
                                    !.paperTradingMode = TRUE],
      [DefaultRiskParameters EXCEPT !.maxDrawdownPercent = Frac(6, 10),
                                    !.consecutiveLossLimit = 3,
                                    !.minLotSize = Frac(8, 1),
                                    !.ordersPerCounter = 2],
      [DefaultRiskParameters EXCEPT !.dailyRiskPercent = FracZero,
                                    !.consecutiveLossLimit = 1,
                                    !.ordersPerCounter = 1] }

\* account.equity of the snapshots handed in
EquitySet == {0, 50, 100}
OrderSet == {"o1", "o2"}
\* Order::quantity and Order::price of the two orders: 0.01 lots, and the
\* 100 lots at 1.1000 of the risk-limit test
OrderQuantity(order) == IF order = "o2" THEN Frac(100, 1) ELSE Frac(1, 100)
OrderPrice(order) == Frac(BasePrice, 10000)
\* TradingSignal::entryPrice / stopLoss and InstrumentSpec::tickValue handed
\* to calculatePositionSize
EntryPriceSet == {BasePrice, BasePrice + 12, BasePrice + 24}
StopPriceSet == {BasePrice, BasePrice - 12, BasePrice + 24}
TickValueSet == {Frac(1, 1), Frac(1000, 1)}
MaxTrades == 3
MaxCounterOrders == 3
MaxCompleted == 2

\* The two instrument-processing threads that report trades
Threads == {"t1", "t2"}

\* TradingCounter(): the default-constructed counter
DefaultCounter ==
    [counterNumber |-> 0, ordersCount |-> 0, orders |-> <<>>,
     totalPnL |-> 0, totalCharges |-> 0, startTime |-> 0, isComplete |-> FALSE]

\* initialize(params)
Initialize(params) ==
    /\ paramsPc = "idle"
    /\ params_' = params
    /\ paperMode_' = params.paperTradingMode
    /\ lastCall' = [name |-> "initialize", ret |-> TRUE]
    /\ UNCHANGED <<currentStatus_, emergencyStop_, drawdownVars, dailyVars,
                   tradeVars, counterVars, chartVars, detectorVars>>
    /\ UNCHANGED restVars

\* updateRiskParameters(params)
UpdateRiskParameters(params) ==
    /\ paramsPc = "idle"
    /\ params_' = params
    /\ lastCall' = [name |-> "updateRiskParameters"]
    /\ UNCHANGED <<flagVars, drawdownVars, dailyVars, tradeVars, counterVars,
                   chartVars, detectorVars>>
    /\ UNCHANGED restVars

\* The members of RiskParameters in declaration order, the order in which
\* the implicit copy assignment of params_ = params writes them
RiskParameterFields ==
    <<"dailyRiskPercent", "maxDrawdownPercent", "consecutiveLossLimit",
      "capitalUtilization", "ordersPerCounter", "minLotSize", "paperTradingMode">>

\* `to` with the first k members taken from `from`
copyMembers(to, from, k) ==
    [f \in DOMAIN to |->
        IF \E i \in 1..k : RiskParameterFields[i] = f THEN from[f] ELSE to[f]]

\* updateRiskParameters(params) on another thread: paramsMutex_ is taken and
\* the copy into params_ has written its first k members
UpdateRiskParametersLock(params, k) ==
    /\ paramsPc = "idle"
    /\ paramsPc' = "copying"
    /\ paramsPending' = params
    /\ params_' = copyMembers(params_, params, k)
    /\ UNCHANGED <<flagVars, drawdownVars, dailyVars, tradeVars, counterVars,
                   chartVars, detectorVars, minConfidence_, orderVars, addPricePc,
                   recordTradePc, recordTradeReg, recordTradeStart, lastCall>>

\* ... the rest of the copy, and the lock released on return
UpdateRiskParametersFinish ==
    /\ paramsPc = "copying"
    /\ params_' = paramsPending
    /\ paramsPc' = "idle"
    /\ paramsPending' = DefaultRiskParameters
    /\ lastCall' = [name |-> "updateRiskParameters"]
    /\ UNCHANGED <<flagVars, drawdownVars, dailyVars, tradeVars, counterVars,
                   chartVars, detectorVars, minConfidence_, orderVars, addPricePc,
                   recordTradePc, recordTradeReg, recordTradeStart>>

\* isWithinDailyRiskLimit comparing with <= instead of <
isWithinDailyRiskLimit_Inclusive(equity) ==
    ~FracLT(Frac(equity * params_.dailyRiskPercent.num, params_.dailyRiskPercent.den),
            dailyRiskUsed_)

\* isWithinDailyRiskLimit(order, account)
isWithinDailyRiskLimit(equity) ==
    LET maxDailyRisk == Frac(equity * params_.dailyRiskPercent.num,
                             params_.dailyRiskPercent.den)
    IN FracLT(dailyRiskUsed_, maxDailyRisk)

\* isWithinDrawdownLimit(account)
isWithinDrawdownLimit == FracLT(currentDrawdown_, params_.maxDrawdownPercent)

\* validateOrder without the emergency-stop check
validateOrder_NoEmergencyCheck(equity) ==
    IF ~isWithinDailyRiskLimit(equity) THEN FALSE
    ELSE IF ~isWithinDrawdownLimit THEN FALSE
    ELSE TRUE

\* validateOrder(order, account, positions): neither the order nor the
\* positions are read
validateOrder(equity) ==
    IF emergencyStop_ THEN FALSE
    ELSE IF ~isWithinDailyRiskLimit(equity) THEN FALSE
    ELSE IF ~isWithinDrawdownLimit THEN FALSE
    ELSE TRUE

\* validateOrder booking the order's risk when it approves
ValidateOrder_BooksRisk(order, equity) ==
    /\ lastCall' = [name |-> "validateOrder", order |-> order, equity |-> equity,
                    ret |-> validateOrder(equity)]
    /\ dailyRiskUsed_' = IF validateOrder(equity) THEN OrderQuantity(order)
                                                 ELSE dailyRiskUsed_
    /\ UNCHANGED <<params_, flagVars, drawdownVars, dailyPnL_, tradeVars, counterVars,
                   chartVars, detectorVars>>
    /\ UNCHANGED restVars

\* validateOrder(order, account, positions), a const method
ValidateOrder(order, equity) ==
    /\ lastCall' = [name |-> "validateOrder", order |-> order, equity |-> equity,
                    ret |-> validateOrder(equity)]
    /\ UNCHANGED <<riskVars, chartVars, detectorVars>>
    /\ UNCHANGED restVars

\* calculatePositionSize without the stop-distance test: the division by a
\* zero stop distance gives infinity, which the clamps cut to 0.1 * equity
calculatePositionSize_NoStopTest(entryPrice, stopLoss, equity, tickValue) ==
    LET riskAmount == Frac(equity * params_.dailyRiskPercent.num,
                           params_.dailyRiskPercent.den)
        stopDistance == Frac(Abs(entryPrice - stopLoss), 10000)
        positionSize == Frac(riskAmount.num * stopDistance.den * tickValue.den,
                             riskAmount.den * stopDistance.num * tickValue.num)
    IN IF stopDistance.num <= 0
       THEN Frac(equity, 10)
       ELSE FracMin(FracMax(positionSize, params_.minLotSize), Frac(equity, 10))

\* calculatePositionSize with the two clamps applied in the other order
calculatePositionSize_MinFirst(entryPrice, stopLoss, equity, tickValue) ==
    LET riskAmount == Frac(equity * params_.dailyRiskPercent.num,
                           params_.dailyRiskPercent.den)
        stopDistance == Frac(Abs(entryPrice - stopLoss), 10000)
        positionSize == Frac(riskAmount.num * stopDistance.den * tickValue.den,
                             riskAmount.den * stopDistance.num * tickValue.num)
    IN IF stopDistance.num <= 0
       THEN FracZero
       ELSE FracMax(FracMin(positionSize, Frac(equity, 10)), params_.minLotSize)

\* calculatePositionSize(symbol, signal, account, instrument); prices are in
\* ticks of 1/10000
calculatePositionSize(entryPrice, stopLoss, equity, tickValue) ==
    LET riskAmount == Frac(equity * params_.dailyRiskPercent.num,
                           params_.dailyRiskPercent.den)
        stopDistance == Frac(Abs(entryPrice - stopLoss), 10000)
        positionSize == Frac(riskAmount.num * stopDistance.den * tickValue.den,
                             riskAmount.den * stopDistance.num * tickValue.num)
    IN IF stopDistance.num <= 0
       THEN FracZero
       ELSE FracMin(FracMax(positionSize, params_.minLotSize), Frac(equity, 10))

CalculatePositionSize(entryPrice, stopLoss, equity, tickValue) ==
    /\ lastCall' = [name |-> "calculatePositionSize", entryPrice |-> entryPrice,
                    stopLoss |-> stopLoss, equity |-> equity, tickValue |-> tickValue,
                    ret |-> calculatePositionSize(entryPrice, stopLoss, equity, tickValue)]
    /\ UNCHANGED <<riskVars, chartVars, detectorVars>>
    /\ UNCHANGED restVars

\* calculateDrawdown measuring from the equity just read, not from the peak
calculateDrawdown_PriorReading(currentEquity) ==
    LET hwm == IF currentEquity > equityHighWaterMark_
               THEN currentEquity ELSE equityHighWaterMark_
        dd == Frac(hwm - currentEquity, hwm)
    IN IF hwm > 0
       THEN [hwm |-> currentEquity, current |-> dd, max |-> FracMax(maxDrawdown_, dd)]
       ELSE [hwm |-> hwm, current |-> currentDrawdown_, max |-> maxDrawdown_]

\* calculateDrawdown(currentEquity): the three tracking fields afterwards
calculateDrawdown(currentEquity) ==
    LET hwm == IF currentEquity > equityHighWaterMark_
               THEN currentEquity ELSE equityHighWaterMark_
        dd == Frac(hwm - currentEquity, hwm)
    IN IF hwm > 0
       THEN [hwm |-> hwm, current |-> dd, max |-> FracMax(maxDrawdown_, dd)]
       ELSE [hwm |-> hwm, current |-> currentDrawdown_, max |-> maxDrawdown_]

\* updateRiskStatus deciding the status on the drawdown read before
\* calculateDrawdown has run
UpdateRiskStatus_StaleDrawdown(equity) ==
    LET d == calculateDrawdown(equity) IN
    /\ equityHighWaterMark_' = d.hwm
    /\ currentDrawdown_' = d.current
    /\ maxDrawdown_' = d.max
    /\ currentStatus_' =
          IF emergencyStop_ THEN "LIMIT_REACHED"
          ELSE IF paperMode_ THEN "PAPER_MODE"
          ELSE IF FracGT(currentDrawdown_, Frac(params_.maxDrawdownPercent.num * 8,
                                                params_.maxDrawdownPercent.den * 10))
               THEN "WARNING"
          ELSE "NORMAL"
    /\ lastCall' = [name |-> "updateRiskStatus", equity |-> equity]
    /\ UNCHANGED <<params_, paperMode_, emergencyStop_, dailyVars, tradeVars,
                   counterVars, chartVars, detectorVars>>
    /\ UNCHANGED restVars

\* updateRiskStatus(account, positions)
UpdateRiskStatus(equity) ==
    LET d == calculateDrawdown(equity) IN
    /\ equityHighWaterMark_' = d.hwm
    /\ currentDrawdown_' = d.current
    /\ maxDrawdown_' = d.max
    /\ currentStatus_' =
          IF emergencyStop_ THEN "LIMIT_REACHED"
          ELSE IF paperMode_ THEN "PAPER_MODE"
          ELSE IF FracGT(d.current, Frac(params_.maxDrawdownPercent.num * 8,
                                         params_.maxDrawdownPercent.den * 10))
               THEN "WARNING"
          ELSE "NORMAL"
    /\ lastCall' = [name |-> "updateRiskStatus", equity |-> equity]
    /\ UNCHANGED <<params_, paperMode_, emergencyStop_, dailyVars, tradeVars,
                   counterVars, chartVars, detectorVars>>
    /\ UNCHANGED restVars

\* shouldSwitchToPaperMode comparing with > instead of >=
shouldSwitchToPaperMode_Strict(losses) == losses > params_.consecutiveLossLimit

\* shouldSwitchToPaperMode(), on a given loss count
shouldSwitchToPaperMode(losses) == losses >= params_.consecutiveLossLimit

\* switchToPaperMode()
SwitchToPaperMode ==
    /\ paperMode_' = TRUE
    /\ currentStatus_' = "PAPER_MODE"
    /\ lastCall' = [name |-> "switchToPaperMode"]
    /\ UNCHANGED <<params_, emergencyStop_, drawdownVars, dailyVars, tradeVars,
                   counterVars, chartVars, detectorVars>>
    /\ UNCHANGED restVars

\* switchToLiveMode()
SwitchToLiveMode ==
    /\ paperMode_' = FALSE
    /\ lastCall' = [name |-> "switchToLiveMode"]
    /\ UNCHANGED <<params_, currentStatus_, emergencyStop_, drawdownVars, dailyVars,
                   tradeVars, counterVars, chartVars, detectorVars>>
    /\ UNCHANGED restVars

\* The number of recordTrade(order, false) calls made back to back, counted
\* from a state with paperMode_ false and consecutiveLosses_ 0 (0: no such run)
LossRun(profitable) ==
    IF profitable THEN 0
    ELSE IF lastCall.name = "recordTrade" /\ lastCall.run > 0 THEN lastCall.run + 1
    ELSE IF ~paperMode_ /\ consecutiveLosses_ = 0 THEN 1
    ELSE 0

\* recordTrade whose losing branch leaves consecutiveWins_ standing
RecordTrade_WinsKept(order, profitable) ==
    /\ totalTrades_ < MaxTrades
    /\ totalTrades_' = totalTrades_ + 1
    /\ IF profitable
       THEN /\ consecutiveWins_' = consecutiveWins_ + 1
            /\ consecutiveLosses_' = 0
            /\ profitableTrades_' = profitableTrades_ + 1
            /\ UNCHANGED <<maxConsecutiveLosses_, paperMode_, currentStatus_>>
       ELSE /\ consecutiveLosses_' = consecutiveLosses_ + 1
            /\ UNCHANGED consecutiveWins_
            /\ maxConsecutiveLosses_' = Max(maxConsecutiveLosses_, consecutiveLosses_ + 1)
            /\ UNCHANGED profitableTrades_
            /\ IF shouldSwitchToPaperMode(consecutiveLosses_ + 1) /\ ~paperMode_
               THEN paperMode_' = TRUE /\ currentStatus_' = "PAPER_MODE"
               ELSE UNCHANGED <<paperMode_, currentStatus_>>
    /\ lastCall' = [name |-> "recordTrade", profitable |-> profitable,
                    run |-> LossRun(profitable)]
    /\ UNCHANGED <<params_, emergencyStop_, drawdownVars, dailyVars, counterVars,
                   chartVars, detectorVars>>
    /\ UNCHANGED restVars

\* recordTrade(order, profitable)
RecordTrade(order, profitable) ==
    /\ totalTrades_ < MaxTrades
    /\ totalTrades_' = totalTrades_ + 1
    /\ IF profitable
       THEN /\ consecutiveWins_' = consecutiveWins_ + 1
            /\ consecutiveLosses_' = 0
            /\ profitableTrades_' = profitableTrades_ + 1
            /\ UNCHANGED <<maxConsecutiveLosses_, paperMode_, currentStatus_>>
       ELSE /\ consecutiveLosses_' = consecutiveLosses_ + 1
            /\ consecutiveWins_' = 0
            /\ maxConsecutiveLosses_' = Max(maxConsecutiveLosses_, consecutiveLosses_ + 1)
            /\ UNCHANGED profitableTrades_
            /\ IF shouldSwitchToPaperMode(consecutiveLosses_ + 1) /\ ~paperMode_
               THEN paperMode_' = TRUE /\ currentStatus_' = "PAPER_MODE"
               ELSE UNCHANGED <<paperMode_, currentStatus_>>
    /\ lastCall' = [name |-> "recordTrade", profitable |-> profitable,
                    run |-> LossRun(profitable)]
    /\ UNCHANGED <<params_, emergencyStop_, drawdownVars, dailyVars, counterVars,
                   chartVars, detectorVars>>
    /\ UNCHANGED restVars

\* Two threads enter recordTrade(order, false) together.  recordTrade takes
\* no lock and its counters are a plain double and plain ints: each ++ is a
\* load and a store that the other thread's may come between.
RecordTradeEnter ==
    /\ \A t \in Threads : recordTradePc[t] = "idle"
    /\ totalTrades_ + 2 <= MaxTrades
    /\ recordTradePc' = [t \in Threads |-> "loadTotal"]
    /\ recordTradeStart' = [losses |-> consecutiveLosses_, total |-> totalTrades_]
    /\ UNCHANGED <<chartVars, detectorVars, riskVars, minConfidence_, orderVars,
                   addPricePc, paramsPc, paramsPending, recordTradeReg, lastCall>>

\* totalTrades_++, the load
RecordTradeLoadTotal(t) ==
    /\ recordTradePc[t] = "loadTotal"
    /\ recordTradeReg' = [recordTradeReg EXCEPT ![t] = totalTrades_]
    /\ recordTradePc' = [recordTradePc EXCEPT ![t] = "storeTotal"]
    /\ UNCHANGED <<chartVars, detectorVars, riskVars, minConfidence_, orderVars,
                   addPricePc, paramsPc, paramsPending, recordTradeStart, lastCall>>

\* totalTrades_++, the store
RecordTradeStoreTotal(t) ==
    /\ recordTradePc[t] = "storeTotal"
    /\ totalTrades_' = recordTradeReg[t] + 1
    /\ recordTradePc' = [recordTradePc EXCEPT ![t] = "loadLosses"]
    /\ UNCHANGED <<params_, flagVars, drawdownVars, dailyVars, consecutiveLosses_,
                   consecutiveWins_, maxConsecutiveLosses_, profitableTrades_,
                   counterVars, chartVars, detectorVars, minConfidence_, orderVars,
                   addPricePc, paramsPc, paramsPending, recordTradeReg,
                   recordTradeStart, lastCall>>

\* consecutiveLosses_++, the load
RecordTradeLoadLosses(t) ==
    /\ recordTradePc[t] = "loadLosses"
    /\ recordTradeReg' = [recordTradeReg EXCEPT ![t] = consecutiveLosses_]
    /\ recordTradePc' = [recordTradePc EXCEPT ![t] = "storeLosses"]
    /\ UNCHANGED <<chartVars, detectorVars, riskVars, minConfidence_, orderVars,
                   addPricePc, paramsPc, paramsPending, recordTradeStart, lastCall>>

\* consecutiveLosses_++, the store; consecutiveWins_ = 0; maxConsecutiveLosses_
RecordTradeStoreLosses(t) ==
    /\ recordTradePc[t] = "storeLosses"
    /\ consecutiveLosses_' = recordTradeReg[t] + 1
    /\ consecutiveWins_' = 0
    /\ maxConsecutiveLosses_' = Max(maxConsecutiveLosses_, recordTradeReg[t] + 1)
    /\ recordTradePc' = [recordTradePc EXCEPT ![t] = "checkPaper"]
    /\ UNCHANGED <<params_, flagVars, drawdownVars, dailyVars, totalTrades_,
                   profitableTrades_, counterVars, chartVars, detectorVars,
                   minConfidence_, orderVars, addPricePc, paramsPc, paramsPending,
                   recordTradeReg, recordTradeStart, lastCall>>

\* if (shouldSwitchToPaperMode() && !paperMode_) switchToPaperMode(); return
RecordTradeCheckPaper(t) ==
    /\ recordTradePc[t] = "checkPaper"
    /\ IF shouldSwitchToPaperMode(consecutiveLosses_) /\ ~paperMode_
       THEN paperMode_' = TRUE /\ currentStatus_' = "PAPER_MODE"
       ELSE UNCHANGED <<paperMode_, currentStatus_>>
    /\ recordTradePc' = [recordTradePc EXCEPT ![t] = "done"]
    /\ UNCHANGED <<params_, emergencyStop_, drawdownVars, dailyVars, tradeVars,
                   counterVars, chartVars, detectorVars, minConfidence_, orderVars,
                   addPricePc, paramsPc, paramsPending, recordTradeReg,
                   recordTradeStart, lastCall>>

\* Both calls have returned
RecordTradeJoin ==
    /\ \A t \in Threads : recordTradePc[t] = "done"
    /\ recordTradePc' = [t \in Threads |-> "idle"]
    /\ recordTradeReg' = [t \in Threads |-> 0]
    /\ lastCall' = [name |-> "recordTrade", profitable |-> FALSE, run |-> 0]
    /\ UNCHANGED <<chartVars, detectorVars, riskVars, minConfidence_, orderVars,
                   addPricePc, paramsPc, paramsPending, recordTradeStart>>

\* resetConsecutiveCount()
ResetConsecutiveCount ==
    /\ consecutiveLosses_' = 0
    /\ consecutiveWins_' = 0
    /\ lastCall' = [name |-> "resetConsecutiveCount"]
    /\ UNCHANGED <<params_, flagVars, drawdownVars, dailyVars, maxConsecutiveLosses_,
                   totalTrades_, profitableTrades_, counterVars, chartVars, detectorVars>>
    /\ UNCHANGED restVars

\* performDailyReset that also returns the manager to live trading
PerformDailyReset_BackToLive ==
    /\ dailyPnL_' = 0
    /\ dailyRiskUsed_' = FracZero
    /\ paperMode_' = FALSE
    /\ lastCall' = [name |-> "performDailyReset"]
    /\ UNCHANGED <<params_, currentStatus_, emergencyStop_, drawdownVars, tradeVars,
                   counterVars, chartVars, detectorVars>>
    /\ UNCHANGED restVars

\* performDailyReset() / resetDailyCounters()
PerformDailyReset ==
    /\ dailyPnL_' = 0
    /\ dailyRiskUsed_' = FracZero
    /\ lastCall' = [name |-> "performDailyReset"]
    /\ UNCHANGED <<params_, flagVars, drawdownVars, tradeVars, counterVars,
                   chartVars, detectorVars>>
    /\ UNCHANGED restVars

\* enableEmergencyStop()
EnableEmergencyStop ==
    /\ emergencyStop_' = TRUE
    /\ currentStatus_' = "LIMIT_REACHED"
    /\ lastCall' = [name |-> "enableEmergencyStop"]
    /\ UNCHANGED <<params_, paperMode_, drawdownVars, dailyVars, tradeVars,
                   counterVars, chartVars, detectorVars>>
    /\ UNCHANGED restVars

\* disableEmergencyStop()
DisableEmergencyStop ==
    /\ emergencyStop_' = FALSE
    /\ lastCall' = [name |-> "disableEmergencyStop"]
    /\ UNCHANGED <<params_, currentStatus_, paperMode_, drawdownVars, dailyVars,
                   tradeVars, counterVars, chartVars, detectorVars>>
    /\ UNCHANGED restVars

\* startNewCounter(), system_clock::now() reading now
StartNewCounter(now) ==
    /\ ~counterHung
    /\ IF currentCounter_.isComplete \/ currentCounter_.ordersCount = 0
       THEN currentCounter_' =
                [DefaultCounter EXCEPT !.counterNumber = Len(completedCounters_) + 1,
                                       !.startTime = now]
       ELSE UNCHANGED currentCounter_
    /\ lastCall' = [name |-> "startNewCounter", returned |-> TRUE]
    /\ UNCHANGED <<params_, flagVars, drawdownVars, dailyVars, tradeVars,
                   completedCounters_, counterHung, chartVars, detectorVars>>
    /\ UNCHANGED restVars

\* completeCounter(): the counter and the archive afterwards
completeCounter(counter, completed) ==
    LET done == [counter EXCEPT !.isComplete = TRUE]
    IN [counter |-> done, completed |-> Append(completed, done)]

\* addOrderToCounter: the counter once the order is pushed and counted
pushOrder(counter, order) ==
    [counter EXCEPT !.orders = Append(@, order), !.ordersCount = @ + 1]

\* addOrderToCounter(order), the call returns.  When the count reaches
\* ordersPerCounter it calls completeCounter() while holding counterMutex_,
\* and completeCounter() locks counterMutex_ again: undefined behaviour; this
\* is the outcome in which the nested lock() lets the thread through.
AddOrderToCounter(order) ==
    /\ ~counterHung
    /\ Len(currentCounter_.orders) < MaxCounterOrders
    /\ Len(completedCounters_) < MaxCompleted
    /\ LET pushed == pushOrder(currentCounter_, order) IN
       IF pushed.ordersCount >= params_.ordersPerCounter
       THEN LET c == completeCounter(pushed, completedCounters_)
            IN /\ currentCounter_' = c.counter
               /\ completedCounters_' = c.completed
       ELSE /\ currentCounter_' = pushed
            /\ UNCHANGED completedCounters_
    /\ lastCall' = [name |-> "addOrderToCounter", returned |-> TRUE]
    /\ UNCHANGED <<params_, flagVars, drawdownVars, dailyVars, tradeVars,
                   counterHung, chartVars, detectorVars>>
    /\ UNCHANGED restVars

\* addOrderToCounter(order), the nested lock() of completeCounter() blocks:
\* the order is pushed and counted, the call never returns and counterMutex_
\* stays locked
AddOrderToCounterRelockHang(order) ==
    /\ ~counterHung
    /\ Len(currentCounter_.orders) < MaxCounterOrders
    /\ pushOrder(currentCounter_, order).ordersCount >= params_.ordersPerCounter
    /\ currentCounter_' = pushOrder(currentCounter_, order)
    /\ counterHung' = TRUE
    /\ lastCall' = [name |-> "addOrderToCounter", returned |-> FALSE]
    /\ UNCHANGED <<params_, flagVars, drawdownVars, dailyVars, tradeVars,
                   completedCounters_, chartVars, detectorVars>>
    /\ UNCHANGED restVars

\* completeCounter(), called directly
CompleteCounter ==
    /\ ~counterHung
    /\ Len(completedCounters_) < MaxCompleted
    /\ LET c == completeCounter(currentCounter_, completedCounters_)
       IN /\ currentCounter_' = c.counter
          /\ completedCounters_' = c.completed
    /\ lastCall' = [name |-> "completeCounter", returned |-> TRUE]
    /\ UNCHANGED <<params_, flagVars, drawdownVars, dailyVars, tradeVars,
                   counterHung, chartVars, detectorVars>>
    /\ UNCHANGED restVars

\* isCounterComplete() / getOrdersInCurrentCounter(): both take counterMutex_
isCounterComplete == currentCounter_.isComplete
getOrdersInCurrentCounter == currentCounter_.ordersCount

\* ------------------------------------------------------------------------
\* Specifications
\* ------------------------------------------------------------------------
\* RenkoChart(symbol, brickSize, maxBricks), PatternDetector(), RiskManager()
Init ==
    /\ brickSize_ = BrickSizeInit
    /\ maxBricks_ = MaxBricksInit
    /\ bricks_ = <<>>
    /\ currentBrick_ = DefaultBrick
    /\ currentBrickInitialized_ = FALSE
    /\ lastPrice_ = 0
    /\ lastUpdate_ = 0
    /\ chartHung = FALSE
    /\ partialBrickThreshold_ = Frac(75, 100)
    /\ tickBuffer_ = 2
    /\ setup1Enabled_ = TRUE
    /\ setup2Enabled_ = TRUE
    /\ params_ = DefaultRiskParameters
    /\ currentStatus_ = "NORMAL"
    /\ paperMode_ = FALSE
    /\ emergencyStop_ = FALSE
    /\ equityHighWaterMark_ = 0
    /\ currentDrawdown_ = FracZero
    /\ maxDrawdown_ = FracZero
    /\ dailyPnL_ = 0
    /\ dailyRiskUsed_ = FracZero
    /\ consecutiveLosses_ = 0
    /\ consecutiveWins_ = 0
    /\ maxConsecutiveLosses_ = 0
    /\ totalTrades_ = 0
    /\ profitableTrades_ = 0
    /\ currentCounter_ = DefaultCounter
    /\ completedCounters_ = <<>>
    /\ counterHung = FALSE
    /\ minConfidence_ = Frac(7, 10)
    /\ activeOrders_ = <<>>
    /\ orderQueue_ = <<>>
    /\ orderIdCounter = 0
    /\ ordersHung = FALSE
    /\ addPricePc = "idle"
    /\ paramsPc = "idle"
    /\ paramsPending = DefaultRiskParameters
    /\ recordTradePc = [t \in Threads |-> "idle"]
    /\ recordTradeReg = [t \in Threads |-> 0]
    /\ recordTradeStart = [losses |-> 0, total |-> 0]
    /\ lastCall = [name |-> "constructor"]

\* One instrument's chart with a fixed brick size, and its detector
NextChart ==
    \/ \E price \in PriceSet, ts \in TimeSet : AddPrice(price, ts)
    \/ DetectPatterns
    \/ DetectPatternsRelockHang
    \/ \E threshold \in ThresholdSet : SetPartialBrickThreshold(threshold)

SpecChart == Init /\ [][NextChart]_vars

\* One instrument's chart under prices, brick-size changes and resets
EnginePriceSet == {0, -1} \cup {BasePrice + d : d \in {-20, -12, -2, 0, 8, 18, 25}}
NextEngine ==
    \/ \E price \in EnginePriceSet : AddPrice(price, 1)
    \/ \E brickSize \in BrickSizeSet : SetBrickSize(brickSize)
    \/ Reset

SpecEngine == Init /\ [][NextEngine]_vars

\* The brick series under prices and changes of its limits
SeriesPriceSet == {BasePrice + d : d \in {-20, -10, 0, 10, 25}}
NextSeries ==
    \/ \E price \in SeriesPriceSet : AddPrice(price, 1)
    \/ \E maxBricks \in MaxBricksSet : SetMaxBricks(maxBricks)
    \/ \E keepCount \in KeepCountSet : ClearOldBricks(keepCount)
    \/ \E brickSize \in BrickSizeSet : SetBrickSize(brickSize)

SpecSeries == Init /\ [][NextSeries]_vars

\* Signals generated from pattern results
NextSignal ==
    \E pattern \in SignalPatternSet, config \in SymbolConfigSet, uninitSide \in SideSet :
        GenerateSignalFromPattern(pattern, config, uninitSide)

SpecSignal == Init /\ [][NextSignal]_vars

\* The detector under changes of its minimum confidence
ConfidencePriceSet == {BasePrice + d : d \in {-20, -10, -2}}
NextConfidence ==
    \/ \E price \in ConfidencePriceSet : AddPrice(price, 1)
    \/ DetectPatterns
    \/ DetectPatternsRelockHang
    \/ \E confidence \in ConfidenceSet : SetMinConfidence(confidence)

SpecConfidence == Init /\ [][NextConfidence]_vars

\* The chart fed by one thread and queried from another
InterleavePriceSet == {BasePrice + d : d \in {-10, -2, 0, 10}}
NextInterleave ==
    \/ \E price \in InterleavePriceSet : AddPrice(price, 1)
    \/ \E price \in InterleavePriceSet : AddPriceLock(price, 2)
    \/ AddPriceUpdate
    \/ AddPriceFinish
    \/ \E maxBricks \in MaxBricksSet : SetMaxBricks(maxBricks)
    \/ GetConsecutiveUpCount
    \/ GetBrickSize
    \/ GetLastUpdateTime

SpecInterleave == Init /\ [][NextInterleave]_vars

\* Two instrument-processing threads reporting losing trades together
NextTradeRace ==
    \/ \E params \in ParamSet : Initialize(params)
    \/ RecordTradeEnter
    \/ \E t \in Threads : RecordTradeLoadTotal(t)
    \/ \E t \in Threads : RecordTradeStoreTotal(t)
    \/ \E t \in Threads : RecordTradeLoadLosses(t)
    \/ \E t \in Threads : RecordTradeStoreLosses(t)
    \/ \E t \in Threads : RecordTradeCheckPaper(t)
    \/ RecordTradeJoin
    \/ ResetConsecutiveCount
    \/ SwitchToLiveMode

SpecTradeRace == Init /\ [][NextTradeRace]_vars

\* The risk parameters replaced by one thread and read by another
ParamsUpdateSet == {params \in ParamSet : params.ordersPerCounter = 2}
ParamsEquitySet == {e \in EquitySet : e > 0}
NextParams ==
    \/ \E params \in ParamsUpdateSet, k \in 1..(Len(RiskParameterFields) - 1) :
          UpdateRiskParametersLock(params, k)
    \/ UpdateRiskParametersFinish
    \/ \E order \in OrderSet, equity \in ParamsEquitySet : ValidateOrder(order, equity)
    \/ \E equity \in ParamsEquitySet :
          CalculatePositionSize(BasePrice + 12, BasePrice, equity, FracOne)
    \/ \E equity \in ParamsEquitySet : UpdateRiskStatus(equity)
    \/ \E order \in OrderSet : RecordTrade(order, FALSE)
    \/ \E order \in OrderSet : AddOrderToCounter(order)
    \/ \E order \in OrderSet : AddOrderToCounterRelockHang(order)

SpecParams == Init /\ [][NextParams]_vars

\* The order manager before start()
NextOrders ==
    \/ \E order \in OrderRequestSet : SubmitOrder(order)
    \/ GetActiveOrders
    \/ \E orderId \in OrderIdSet : CancelOrder(orderId)
    \/ \E orderId \in OrderIdSet : CancelOrderRelockHang(orderId)

SpecOrders == Init /\ [][NextOrders]_vars

\* The risk governor's status, limits and trade bookkeeping
NextRisk ==
    \/ \E params \in ParamSet : Initialize(params)
    \/ \E params \in ParamSet : UpdateRiskParameters(params)
    \/ \E order \in OrderSet, equity \in EquitySet : ValidateOrder(order, equity)
    \/ \E equity \in EquitySet : UpdateRiskStatus(equity)
    \/ SwitchToPaperMode
    \/ SwitchToLiveMode
    \/ \E order \in OrderSet, profitable \in BOOLEAN : RecordTrade(order, profitable)
    \/ ResetConsecutiveCount
    \/ PerformDailyReset
    \/ EnableEmergencyStop
    \/ DisableEmergencyStop

SpecRisk == Init /\ [][NextRisk]_vars

\* The risk governor's order counters
NextCounter ==
    \/ \E params \in ParamSet : UpdateRiskParameters(params)
    \/ \E now \in TimeSet : StartNewCounter(now)
    \/ \E order \in OrderSet : AddOrderToCounter(order)
    \/ \E order \in OrderSet : AddOrderToCounterRelockHang(order)
    \/ CompleteCounter

SpecCounter == Init /\ [][NextCounter]_vars

\* The risk governor's switches and counter operations
NextMutations ==
    \/ EnableEmergencyStop
    \/ DisableEmergencyStop
    \/ SwitchToPaperMode
    \/ SwitchToLiveMode
    \/ \E now \in TimeSet : StartNewCounter(now)
    \/ CompleteCounter
    \/ \E order \in OrderSet : AddOrderToCounter(order)

SpecMutations == Init /\ [][NextMutations]_vars

\* Position sizing under the parameter records
NextSizing ==
    \/ \E params \in ParamSet : UpdateRiskParameters(params)
    \/ \E entryPrice \in EntryPriceSet, stopLoss \in StopPriceSet,
          equity \in EquitySet, tickValue \in TickValueSet :
          CalculatePositionSize(entryPrice, stopLoss, equity, tickValue)

SpecSizing == Init /\ [][NextSizing]_vars

\* ------------------------------------------------------------------------
\* Properties of the brick engine and the pattern detector
\* ------------------------------------------------------------------------
\* The direction the price has moved from the reference level, and how far
PriceAboveReference == lastPrice_ > Reference
HasResult(results, type) == \E i \in 1..Len(results) : results[i].type = type

\* C1: no brick skipping: on a seeded engine a single addPrice whose price
\* lies k >= 1 whole brick-widths from the reference appends exactly k
\* bricks, all up when the price is above and all down when it is below.
C1_NoBrickSkipping ==
    [][ LET k == Abs(lastCall'.price - Reference) \div brickSize_
            n == Len(bricks_')
        IN (/\ lastCall'.name = "addPrice"
            /\ lastCall'.accepted
            /\ currentBrickInitialized_
            /\ k >= 1)
           => /\ lastCall'.formed = k
              /\ \A i \in (n - Min(n, k) + 1)..n :
                     bricks_'[i].isUp = (lastCall'.price > Reference) ]_vars

ScenarioChart(last) ==
    /\ brickSize_ = 10
    /\ partialBrickThreshold_ = Frac(75, 100)
    /\ setup1Enabled_
    /\ bricks_ = <<MakeBrick(11000, 10990, FALSE), MakeBrick(10990, 10980, FALSE)>>
    /\ lastPrice_ = last

\* C3: end-to-end scenario: after 1.1000, 1.0990, 1.0980, 1.0987 there are two
\* down bricks and a partial brick forming up at 0.7, and detectPatterns
\* reports no Setup 1; after a fifth price 1.0988 detectPatterns returns a
\* Setup 1 result with side Buy.
C3_EndToEndScenario ==
    /\ ScenarioChart(10987) =>
          /\ currentBrick_.isUp
          /\ FracEQ(currentBrick_.completionPercent, Frac(7, 10))
          /\ lastCall.name = "detectPatterns" =>
                ~HasResult(lastCall.results, "SETUP_1_CONSECUTIVE")
    /\ (ScenarioChart(10988) /\ lastCall.name = "detectPatterns") =>
          /\ lastCall.returned
          /\ \E i \in 1..Len(lastCall.results) :
                /\ lastCall.results[i].type = "SETUP_1_CONSECUTIVE"
                /\ lastCall.results[i].suggestedSide = "BUY"

\* The two most recent finalized bricks are down and the partial brick is
\* forming up past the threshold
TwoDownThenPartialUp ==
    /\ Len(bricks_) >= 3
    /\ ~bricks_[Len(bricks_)].isUp
    /\ ~bricks_[Len(bricks_) - 1].isUp
    /\ PriceAboveReference
    /\ FracGE(currentBrick_.completionPercent, partialBrickThreshold_)

\* C4: Setup 1 match condition: detectSetup1Pattern returns a Setup 1 result
\* if and only if there are at least 3 finalized bricks, the last and the
\* second-to-last are down and the partial brick is forming up with
\* completion >= the threshold; otherwise the result is None-typed.
C4_Setup1MatchCondition ==
    (lastCall.name = "detectPatterns" /\ lastCall.returned /\ setup1Enabled_)
    => (HasResult(lastCall.results, "SETUP_1_CONSECUTIVE") <=> TwoDownThenPartialUp)

\* C5: Setup 1 result: whenever the chart shows two consecutive down bricks
\* and a partial up brick past the threshold, detectPatterns completes with a
\* Setup 1 result of confidence 0.8, side Buy, entry
\* calculateSetup1EntryPrice(Buy, tickBuffer) and stop
\* calculateStopLoss(Buy, tickBuffer), both positive.
C5_Setup1Result ==
    (lastCall.name = "detectPatterns" /\ setup1Enabled_ /\ TwoDownThenPartialUp)
    => /\ lastCall.returned
       /\ \E i \in 1..Len(lastCall.results) :
             LET r == lastCall.results[i] IN
             /\ r.type = "SETUP_1_CONSECUTIVE"
             /\ FracEQ(r.confidence, Frac(8, 10))
             /\ r.suggestedSide = "BUY"
             /\ r.suggestedEntry = calculateSetup1EntryPrice(bricks_, lastPrice_,
                                       brickSize_, "BUY", tickBuffer_)
             /\ r.suggestedStop = calculateStopLoss(bricks_, lastPrice_,
                                       brickSize_, "BUY", tickBuffer_)
             /\ r.suggestedEntry > 0 /\ r.suggestedStop > 0

\* The three most recent finalized bricks are Up, Down, Up and the partial
\* brick's completion is past the threshold
UpDownUpThenPartial ==
    /\ Len(bricks_) >= 3
    /\ bricks_[Len(bricks_) - 2].isUp
    /\ ~bricks_[Len(bricks_) - 1].isUp
    /\ bricks_[Len(bricks_)].isUp
    /\ FracGE(currentBrick_.completionPercent, partialBrickThreshold_)

\* C6: Setup 2 match: with at least 3 finalized bricks, detectSetup2Pattern
\* completes, and it returns a Setup 2 result with confidence 0.75 and side
\* Buy if and only if the last three bricks are Up, Down, Up and the partial
\* brick's completion is >= the threshold.
C6_Setup2Match ==
    (lastCall.name = "detectPatterns" /\ setup2Enabled_ /\ Len(bricks_) >= 3)
    => /\ lastCall.returned
       /\ UpDownUpThenPartial <=>
             \E i \in 1..Len(lastCall.results) :
                /\ lastCall.results[i].type = "SETUP_2_GREEN_RED_GREEN"
                /\ FracEQ(lastCall.results[i].confidence, Frac(75, 100))
                /\ lastCall.results[i].suggestedSide = "BUY"

\* ------------------------------------------------------------------------
\* Properties of the risk governor
\* ------------------------------------------------------------------------
\* C7: emergency-stop supremacy: right after enableEmergencyStop(), whatever
\* the state before, the status is LimitReached, isEmergencyStopActive() is
\* true and validateOrder rejects every order, account and position list.
C7_EmergencyStopSupremacy ==
    lastCall.name = "enableEmergencyStop"
    => /\ currentStatus_ = "LIMIT_REACHED"
       /\ emergencyStop_
       /\ \A equity \in EquitySet : ~validateOrder(equity)

\* The stop was enabled in paper mode, after a drawdown, in a state whose
\* other limits would let an order through
C7_Witness ==
    /\ lastCall.name = "enableEmergencyStop"
    /\ paperMode_
    /\ FracGT(currentDrawdown_, FracZero)
    /\ \E equity \in EquitySet : isWithinDailyRiskLimit(equity) /\ isWithinDrawdownLimit

\* C8: consecutive-loss auto-paper: starting with paperMode_ false and no
\* consecutive losses, right after the consecutiveLossLimit-th
\* recordTrade(order, false) in a row isPaperMode() is true and the status
\* is PaperMode.
C8_ConsecutiveLossAutoPaper ==
    (/\ lastCall.name = "recordTrade"
     /\ lastCall.run >= 1
     /\ lastCall.run = params_.consecutiveLossLimit)
    => paperMode_ /\ currentStatus_ = "PAPER_MODE"

\* The third loss in a row, under a limit of 3, has just been recorded
C8_Witness ==
    /\ lastCall.name = "recordTrade"
    /\ lastCall.run = 3
    /\ params_.consecutiveLossLimit = 3
    /\ consecutiveLosses_ = 3

\* C9: counter completeness: the addOrderToCounter call that brings a started
\* counter to ordersPerCounter orders returns, and isCounterComplete() is
\* true after it.
C9_CounterCompleteness ==
    (/\ lastCall.name = "addOrderToCounter"
     /\ currentCounter_.counterNumber >= 1
     /\ getOrdersInCurrentCounter = params_.ordersPerCounter)
    => lastCall.returned /\ isCounterComplete

ExceedsRiskLimits(order, equity) ==
    FracGT(Frac(OrderQuantity(order).num * OrderPrice(order).num,
                OrderQuantity(order).den * OrderPrice(order).den),
           Frac(equity * params_.dailyRiskPercent.num, params_.dailyRiskPercent.den))

\* C11: risk-limit enforcement: with the emergency stop off and no drawdown,
\* validateOrder rejects an order that exceeds the risk limits of an account
\* with positive equity under a positive dailyRiskPercent.
C11_RiskLimitEnforcement ==
    (/\ lastCall.name = "validateOrder"
     /\ ~emergencyStop_
     /\ FracEQ(currentDrawdown_, FracZero)
     /\ lastCall.equity > 0
     /\ params_.dailyRiskPercent.num > 0
     /\ ExceedsRiskLimits(lastCall.order, lastCall.equity))
    => lastCall.ret = FALSE

\* C12 as stated: for equity > 0 and a stop distance > 0 the size returned by
\* calculatePositionSize is at least minLotSize and at most 0.1 * equity.
C12_SizingBound_Original ==
    (/\ lastCall.name = "calculatePositionSize"
     /\ lastCall.equity > 0
     /\ lastCall.entryPrice # lastCall.stopLoss)
    => /\ FracGE(lastCall.ret, params_.minLotSize)
       /\ FracGE(Frac(lastCall.equity, 10), lastCall.ret)

\* C12: risk sizing bound: for equity > 0 and a stop distance > 0 the size
\* returned by calculatePositionSize is at most 0.1 * equity, and it is at
\* least minLotSize whenever minLotSize <= 0.1 * equity; when minLotSize is
\* larger than 0.1 * equity the size is exactly 0.1 * equity.
C12_SizingBound ==
    (/\ lastCall.name = "calculatePositionSize"
     /\ lastCall.equity > 0
     /\ lastCall.entryPrice # lastCall.stopLoss)
    => /\ FracGE(Frac(lastCall.equity, 10), lastCall.ret)
       /\ FracGE(Frac(lastCall.equity, 10), params_.minLotSize)
             => FracGE(lastCall.ret, params_.minLotSize)
       /\ FracLT(Frac(lastCall.equity, 10), params_.minLotSize)
             => FracEQ(lastCall.ret, Frac(lastCall.equity, 10))

\* A size was asked for an account whose tenth of equity is below
\* minLotSize, and the upper clamp decided it
C12_Witness ==
    /\ lastCall.name = "calculatePositionSize"
    /\ lastCall.equity > 0
    /\ lastCall.entryPrice # lastCall.stopLoss
    /\ FracLT(Frac(lastCall.equity, 10), params_.minLotSize)
    /\ FracEQ(lastCall.ret, Frac(lastCall.equity, 10))

\* The warning level 0.8 * maxDrawdownPercent, and the drawdown of an equity
\* below the high-water mark (0 while the mark is 0)
WarningLevel == Frac(params_.maxDrawdownPercent.num * 8, params_.maxDrawdownPercent.den * 10)
DrawdownOf(equity) ==
    IF equityHighWaterMark_ > 0
    THEN Frac(equityHighWaterMark_ - equity, equityHighWaterMark_)
    ELSE FracZero

\* C13: status priority: right after updateRiskStatus(account, positions) the
\* status is LimitReached if the emergency stop is set, else PaperMode if
\* paper mode is set, else Warning if the drawdown of this call's equity is
\* above 0.8 * maxDrawdownPercent, else Normal.
C13_StatusPriority ==
    lastCall.name = "updateRiskStatus"
    => currentStatus_ =
          IF emergencyStop_ THEN "LIMIT_REACHED"
          ELSE IF paperMode_ THEN "PAPER_MODE"
          ELSE IF FracGT(DrawdownOf(lastCall.equity), WarningLevel) THEN "WARNING"
          ELSE "NORMAL"

\* The status went back to Normal on this call's equity although an earlier
\* reading had been above the warning level
C13_Witness ==
    /\ lastCall.name = "updateRiskStatus"
    /\ currentStatus_ = "NORMAL"
    /\ FracGT(maxDrawdown_, WarningLevel)
    /\ equityHighWaterMark_ > 0

\* C14: LimitReached transitions: the status becomes LimitReached only by
\* enableEmergencyStop, leaves LimitReached only by disableEmergencyStop, and
\* disableEmergencyStop does move it out of LimitReached.
C14_LimitReachedTransitions ==
    [][ /\ (currentStatus_ # "LIMIT_REACHED" /\ currentStatus_' = "LIMIT_REACHED")
            => lastCall'.name = "enableEmergencyStop"
        /\ (currentStatus_ = "LIMIT_REACHED" /\ currentStatus_' # "LIMIT_REACHED")
            => lastCall'.name = "disableEmergencyStop"
        /\ (currentStatus_ = "LIMIT_REACHED" /\ emergencyStop_
            /\ lastCall'.name = "disableEmergencyStop")
            => currentStatus_' # "LIMIT_REACHED" ]_vars

\* C15: paper mode from configuration: right after initialize(params) with
\* paperTradingMode = true on a RiskManager that has seen no other call,
\* isPaperMode() is true and the status is PaperMode.
C15_PaperModeFromConfiguration ==
    (/\ lastCall.name = "initialize"
     /\ params_.paperTradingMode
     /\ totalTrades_ = 0
     /\ ~emergencyStop_
     /\ equityHighWaterMark_ = 0)
    => paperMode_ /\ currentStatus_ = "PAPER_MODE"

\* C16: completed counters are immutable: an addOrderToCounter call made
\* while the current counter has isComplete = true leaves that counter's
\* orders and ordersCount and the completed-counters archive unchanged.
C16_CompletedCounterImmutable ==
    [][ (currentCounter_.isComplete /\ lastCall'.name = "addOrderToCounter")
        => /\ currentCounter_'.orders = currentCounter_.orders
           /\ currentCounter_'.ordersCount = currentCounter_.ordersCount
           /\ completedCounters_' = completedCounters_ ]_vars

\* C17: startNewCounter guard: a startNewCounter() call made while the
\* current counter is started and open (not complete) changes nothing of it:
\* orders, ordersCount, counterNumber and startTime are unchanged.
C17_StartNewCounterGuard ==
    [][ (/\ lastCall'.name = "startNewCounter"
         /\ currentCounter_.counterNumber >= 1
         /\ ~currentCounter_.isComplete)
        => currentCounter_' = currentCounter_ ]_vars

\* C18: partial-completion bound: in every state reached by addPrice (any
\* price, non-positive ones and multi-brick jumps included), setBrickSize and
\* reset calls, the partial brick has 0 <= completionPercent <= 1.
C18_PartialCompletionBound ==
    /\ FracGE(currentBrick_.completionPercent, FracZero)
    /\ FracGE(FracOne, currentBrick_.completionPercent)

\* A partial brick measured against a changed brick size, above the last close
C18_Witness ==
    /\ lastCall.name = "addPrice"
    /\ lastCall.accepted
    /\ brickSize_ # BrickSizeInit
    /\ bricks_ # <<>>
    /\ lastPrice_ > Reference
    /\ FracGT(currentBrick_.completionPercent, FracZero)

\* C19: partial direction: after an addPrice on a chart that already holds a
\* finalized brick, with the price strictly within one brick size of the
\* last close, the partial brick's isUp is true when the price is above the
\* last close and false when it is below.
C19_PartialDirection ==
    (/\ lastCall.name = "addPrice"
     /\ lastCall.accepted
     /\ lastCall.seeded
     /\ lastCall.formed = 0
     /\ bricks_ # <<>>
     /\ Abs(lastCall.price - Reference) < brickSize_)
    => /\ (lastCall.price > Reference => currentBrick_.isUp)
       /\ (lastCall.price < Reference => ~currentBrick_.isUp)

\* C20: partial completion value: after every accepted addPrice on a seeded
\* chart, a call that finalized a brick included, completionPercent equals
\* min(1, |price - reference| / brickSize) with the reference taken after
\* the call (the last finalized close, the seed price if there is none).
C20_PartialCompletionValue ==
    (/\ lastCall.name = "addPrice"
     /\ lastCall.accepted
     /\ lastCall.seeded)
    => FracEQ(currentBrick_.completionPercent,
              FracMin(FracOne, Frac(Abs(lastCall.price - Reference), brickSize_)))

\* C21: silent drop: an addPrice call with price <= 0 changes no chart
\* state: the bricks, the partial brick, lastPrice_, lastUpdate_, the seeded
\* flag and the settings are the same before and after.
C21_SilentDrop ==
    [][ (lastCall'.name = "addPrice" /\ lastCall'.price <= 0)
        => UNCHANGED chartVars ]_vars

\* A non-positive price was dropped by a chart that holds bricks
C21_Witness ==
    /\ lastCall.name = "addPrice"
    /\ lastCall.price <= 0
    /\ ~lastCall.accepted
    /\ bricks_ # <<>>

\* C22: seeding: the first accepted addPrice on a fresh or reset chart sets
\* the partial brick's open and close to the price with completion 0 and
\* leaves the brick series empty, whatever the price.
C22_Seeding ==
    (/\ lastCall.name = "addPrice"
     /\ lastCall.accepted
     /\ ~lastCall.seeded)
    => /\ currentBrick_.open = lastCall.price
       /\ currentBrick_.close = lastCall.price
       /\ FracEQ(currentBrick_.completionPercent, FracZero)
       /\ bricks_ = <<>>
       /\ currentBrickInitialized_

\* A chart seeded away from the base price after its brick size was changed
C22_Witness ==
    /\ lastCall.name = "addPrice"
    /\ lastCall.accepted
    /\ ~lastCall.seeded
    /\ lastCall.price # BasePrice
    /\ brickSize_ # BrickSizeInit
    /\ currentBrick_.open = lastCall.price

\* C23: brick series bound and order: under addPrice, setMaxBricks,
\* clearOldBricks and setBrickSize the series never holds more than
\* maxBricks_ bricks, and the bricks a step keeps are the newest of the old
\* series, in their old order and unmodified, followed by the bricks the
\* step finalized.
C23_SeriesBoundAndOrder ==
    [][ LET formed == IF lastCall'.name = "addPrice" THEN lastCall'.formed ELSE 0
            kept == Max(0, Len(bricks_') - formed)
        IN /\ Len(bricks_') <= maxBricks_'
           /\ kept <= Len(bricks_)
           /\ \A i \in 1..kept : bricks_'[i] = bricks_[Len(bricks_) - kept + i] ]_vars

\* C24: setBrickSize: a call with size <= 0 leaves the brick size and all
\* other chart state unchanged; a call with size > 0 replaces the brick size
\* and leaves every finalized brick unchanged; a brick finalized afterwards
\* spans the brick size in force.
C24_SetBrickSize ==
    [][ /\ (lastCall'.name = "setBrickSize" /\ lastCall'.brickSize <= 0)
            => UNCHANGED chartVars
        /\ (lastCall'.name = "setBrickSize" /\ lastCall'.brickSize > 0)
            => /\ brickSize_' = lastCall'.brickSize
               /\ bricks_' = bricks_
               /\ currentBrick_' = currentBrick_
        /\ (lastCall'.name = "addPrice" /\ lastCall'.formed = 1 /\ bricks_' # <<>>)
            => Abs(Last(bricks_').close - Last(bricks_').open) = brickSize_ ]_vars

\* A brick of the new size was finalized after a brick of the old size
C24_Witness ==
    /\ lastCall.name = "addPrice"
    /\ lastCall.formed = 1
    /\ Len(bricks_) >= 2
    /\ Abs(bricks_[1].close - bricks_[1].open) = BrickSizeInit
    /\ Abs(Last(bricks_).close - Last(bricks_).open) = brickSize_
    /\ brickSize_ # BrickSizeInit

\* Chart states as the detectors see them: up to MaxBricksInit finalized
\* bricks of either direction and a partial brick of either direction with
\* a completion in tenths
DirectionSeqs == UNION {[1..n -> BOOLEAN] : n \in 0..MaxBricksInit}
BricksOf(dirs) ==
    [i \in 1..Len(dirs) |->
        MakeBrick(BasePrice, IF dirs[i] THEN BasePrice + BrickSizeInit
                                        ELSE BasePrice - BrickSizeInit, dirs[i])]
PartialOf(up, tenths) ==
    [DefaultBrick EXCEPT !.isUp = up, !.completionPercent = Frac(tenths, 10)]

\* C25 as stated: both setups can fire together: some chart state (finalized
\* bricks plus partial brick) makes detectSetup1Pattern and
\* detectSetup2Pattern both match under the detector's threshold, so that
\* one detectPatterns call with both setups enabled returns two results.
C25_BothSetupsCanFire ==
    \E dirs \in DirectionSeqs, up \in BOOLEAN, tenths \in 0..10 :
        /\ setup1Enabled_ /\ setup2Enabled_
        /\ Setup1Match(BricksOf(dirs), PartialOf(up, tenths), partialBrickThreshold_)
        /\ Setup2Match(BricksOf(dirs), PartialOf(up, tenths), partialBrickThreshold_)

\* C25, amended: a detectPatterns call that returns never returns more than
\* one result: Setup 1 and Setup 2 do not fire on the same chart state.
C25_AtMostOneSetup ==
    (lastCall.name = "detectPatterns" /\ lastCall.returned)
    => Len(lastCall.results) <= 1

\* One setup fired with both setups enabled
C25_Witness ==
    /\ lastCall.name = "detectPatterns"
    /\ lastCall.returned
    /\ setup1Enabled_ /\ setup2Enabled_
    /\ Len(lastCall.results) = 1

\* C26: recordTrade bookkeeping: every recordTrade adds one to totalTrades_;
\* a profitable trade adds one to consecutiveWins_ and zeroes
\* consecutiveLosses_; a losing trade adds one to consecutiveLosses_, zeroes
\* consecutiveWins_ and raises maxConsecutiveLosses_ to the new run if it is
\* longer. In every state at most one of the two runs is non-zero and
\* maxConsecutiveLosses_ >= consecutiveLosses_.
C26_RecordTradeBookkeeping ==
    [][ /\ lastCall'.name = "recordTrade"
            => /\ totalTrades_' = totalTrades_ + 1
               /\ IF lastCall'.profitable
                  THEN /\ consecutiveWins_' = consecutiveWins_ + 1
                       /\ consecutiveLosses_' = 0
                       /\ maxConsecutiveLosses_' = maxConsecutiveLosses_
                  ELSE /\ consecutiveLosses_' = consecutiveLosses_ + 1
                       /\ consecutiveWins_' = 0
                       /\ maxConsecutiveLosses_' =
                              Max(maxConsecutiveLosses_, consecutiveLosses_')
        /\ consecutiveWins_' = 0 \/ consecutiveLosses_' = 0
        /\ maxConsecutiveLosses_' >= consecutiveLosses_' ]_vars

\* A loss recorded right after a win
C26_Witness ==
    /\ lastCall.name = "recordTrade"
    /\ ~lastCall.profitable
    /\ profitableTrades_ >= 1
    /\ consecutiveLosses_ = 1
    /\ consecutiveWins_ = 0
    /\ maxConsecutiveLosses_ = 1

\* C27: drawdown tracking: an updateRiskStatus call with a non-negative
\* equity leaves equityHighWaterMark_ = max(old mark, equity),
\* currentDrawdown_ = (mark - equity) / mark (0 while the mark is 0), within
\* [0,1], and maxDrawdown_ = max(old maximum, currentDrawdown_); the mark
\* and the maximum never decrease and maxDrawdown_ >= currentDrawdown_.
C27_DrawdownTracking ==
    [][ /\ (lastCall'.name = "updateRiskStatus" /\ lastCall'.equity >= 0)
            => /\ equityHighWaterMark_' = Max(equityHighWaterMark_, lastCall'.equity)
               /\ FracEQ(currentDrawdown_',
                         IF equityHighWaterMark_' > 0
                         THEN Frac(equityHighWaterMark_' - lastCall'.equity,
                                   equityHighWaterMark_')
                         ELSE FracZero)
               /\ FracEQ(maxDrawdown_', FracMax(maxDrawdown_, currentDrawdown_'))
        /\ equityHighWaterMark_' >= equityHighWaterMark_
        /\ FracGE(maxDrawdown_', maxDrawdown_)
        /\ FracGE(maxDrawdown_', currentDrawdown_')
        /\ FracGE(currentDrawdown_', FracZero)
        /\ FracGE(FracOne, currentDrawdown_') ]_vars

\* An equity between the trough and the peak: the mark stays at the peak and
\* the maximum stays above the current drawdown
C27_Witness ==
    /\ lastCall.name = "updateRiskStatus"
    /\ equityHighWaterMark_ > lastCall.equity
    /\ FracGT(currentDrawdown_, FracZero)
    /\ FracGT(maxDrawdown_, currentDrawdown_)

\* C28: validateOrder is a pure gate: whether it approves or rejects, the
\* call leaves every RiskManager field unchanged.
C28_ValidateOrderPure ==
    [][ lastCall'.name = "validateOrder" => UNCHANGED riskVars ]_vars

\* An order approved on a manager that has a drawdown and a loss on record
C28_Witness ==
    /\ lastCall.name = "validateOrder"
    /\ lastCall.ret
    /\ FracGT(currentDrawdown_, FracZero)
    /\ consecutiveLosses_ >= 1

\* C29: degenerate sizing: calculatePositionSize returns exactly 0 whenever
\* the signal's entry price equals its stop price, for every equity and
\* parameter setting, and the call changes no RiskManager state.
C29_DegenerateSizing ==
    [][ lastCall'.name = "calculatePositionSize"
        => /\ UNCHANGED riskVars
           /\ lastCall'.entryPrice = lastCall'.stopLoss
                  => FracEQ(lastCall'.ret, FracZero) ]_vars

\* Entry equal to stop on an account whose equity and limits would otherwise
\* give a positive size
C29_Witness ==
    /\ lastCall.name = "calculatePositionSize"
    /\ lastCall.entryPrice = lastCall.stopLoss
    /\ lastCall.equity > 0
    /\ params_.dailyRiskPercent.num > 0
    /\ FracEQ(lastCall.ret, FracZero)

\* C30: signal generation: for a pattern other than None the signal carries
\* the pattern's symbol, type, side, entry, stop and confidence, its
\* quantity is the configuration's minLotSize, and its take-profit is
\* entry + 2*|entry - stop| for Buy and entry - 2*|entry - stop| for Sell,
\* hence above the entry for every Buy signal with entry # stop.
C30_SignalGeneration ==
    (lastCall.name = "generateSignalFromPattern" /\ lastCall.pattern.type # "NONE")
    => LET pattern == lastCall.pattern
           signal == lastCall.signal
           risk == Abs(pattern.suggestedEntry - pattern.suggestedStop)
       IN /\ signal.symbol = pattern.symbol
          /\ signal.pattern = pattern.type
          /\ signal.side = pattern.suggestedSide
          /\ signal.entryPrice = pattern.suggestedEntry
          /\ signal.stopLoss = pattern.suggestedStop
          /\ signal.confidence = pattern.confidence
          /\ signal.quantity = lastCall.config.minLotSize
          /\ signal.side = "BUY" => signal.takeProfit = signal.entryPrice + 2 * risk
          /\ signal.side = "SELL" => signal.takeProfit = signal.entryPrice - 2 * risk
          /\ (signal.side = "BUY" /\ signal.entryPrice # signal.stopLoss)
                 => signal.takeProfit > signal.entryPrice

\* A Buy signal whose stop lies above its entry: the take-profit is still
\* above the entry
C30_Witness ==
    /\ lastCall.name = "generateSignalFromPattern"
    /\ lastCall.pattern.type = "SETUP_1_CONSECUTIVE"
    /\ lastCall.signal.side = "BUY"
    /\ lastCall.signal.stopLoss > lastCall.signal.entryPrice
    /\ lastCall.signal.takeProfit > lastCall.signal.entryPrice

\* C36: emergency stop dominates the status: in every reachable state in
\* which emergencyStop_ is true the status is LIMIT_REACHED, whatever calls
\* followed enableEmergencyStop.
C36_EmergencyStopDominatesStatus ==
    emergencyStop_ => currentStatus_ = "LIMIT_REACHED"

\* C37: no self-deadlock in the price-level queries: a detectPatterns call on
\* a chart state where a setup matches, which has to call
\* calculateSetup1EntryPrice / calculateSetup2EntryPrice / calculateStopLoss,
\* returns, and dataMutex_ is not left locked.
C37_NoSelfDeadlockInQueries ==
    /\ ~chartHung
    /\ addPricePc = "idle"
    /\ (lastCall.name = "detectPatterns" /\ RelocksDataMutex) => lastCall.returned

\* C38: no self-deadlock on counter completion: every addOrderToCounter call
\* returns, the one that completes the counter included, and counterMutex_
\* is never left locked for later callers.
C38_NoSelfDeadlockOnCompletion ==
    /\ ~counterHung
    /\ lastCall.name = "addOrderToCounter" => lastCall.returned

IdempotentNames ==
    {"enableEmergencyStop", "disableEmergencyStop", "switchToPaperMode",
     "switchToLiveMode", "startNewCounter", "completeCounter"}
C31_IdempotentMutations ==
    [][ (lastCall.name \in IdempotentNames /\ lastCall'.name = lastCall.name)
        => /\ flagVars' = flagVars
           /\ [currentCounter_' EXCEPT !.startTime = 0]
                  = [currentCounter_ EXCEPT !.startTime = 0]
           /\ completedCounters_' = completedCounters_ ]_vars

\* C40: minimum confidence is honoured: whatever value setMinConfidence
\* stored, a detectPatterns call returns no result whose confidence is below
\* minConfidence_.
C40_MinConfidenceHonoured ==
    (lastCall.name = "detectPatterns" /\ lastCall.returned)
    => \A i \in 1..Len(lastCall.results) :
           FracGE(lastCall.results[i].confidence, minConfidence_)

\* C35: order cancellation: cancelOrder of an id that submitOrder returned
\* (the order is among the active orders) returns true and leaves the
\* order's status CANCELLED; cancelOrder of an unknown id returns false and
\* changes nothing.
C35_OrderCancellation ==
    [][ lastCall'.name = "cancelOrder"
        => IF lastCall'.orderId \in DOMAIN activeOrders_
           THEN /\ lastCall'.returned
                /\ lastCall'.ret
                /\ activeOrders_'[lastCall'.orderId].status = "CANCELLED"
           ELSE /\ lastCall'.returned
                /\ ~lastCall'.ret
                /\ UNCHANGED orderVars ]_vars

\* C32: every public method of the chart that touches the series, the
\* partial brick, the brick size, the series bound or the price state holds
\* dataMutex_: none of getConsecutiveUpCount, getBrickSize, setMaxBricks and
\* getLastUpdateTime runs while an addPrice is between taking the lock and
\* returning.
EngineMethodNames ==
    {"getConsecutiveUpCount", "getBrickSize", "setMaxBricks", "getLastUpdateTime"}
C32_EngineWideLock ==
    [][ (lastCall'.name \in EngineMethodNames /\ addPricePc' = addPricePc)
        => addPricePc = "idle" ]_vars

\* C33: two threads call recordTrade(order, false) together on a manager
\* with consecutiveLosses_ = c: once both calls have returned, both are
\* counted (consecutiveLosses_ = c + 2, totalTrades_ two higher) and paper
\* mode is on if c + 2 reaches consecutiveLossLimit.
C33_ConcurrentRecordTrade ==
    (\A t \in Threads : recordTradePc[t] = "done")
    => /\ consecutiveLosses_ = recordTradeStart.losses + 2
       /\ totalTrades_ = recordTradeStart.total + 2
       /\ (recordTradeStart.losses + 2 >= params_.consecutiveLossLimit => paperMode_)

\* C34: every read of the risk parameters by calculatePositionSize,
\* validateOrder, shouldSwitchToPaperMode (called by recordTrade on a loss),
\* updateRiskStatus and addOrderToCounter is made holding paramsMutex_: none
\* of them runs while an updateRiskParameters is between taking the lock and
\* returning, so none reads a half-copied params_.
ParamReaderNames ==
    {"calculatePositionSize", "validateOrder", "recordTrade", "updateRiskStatus",
     "addOrderToCounter"}
C34_ParamsLockGuarded ==
    [][ (lastCall'.name \in ParamReaderNames /\ paramsPc' = paramsPc)
        => paramsPc = "idle" ]_vars

====
